---- MODULE Spec2Model ----
(***************************************************************************)
(* Model of backend/app/database.py: BigQueryService, the read-only        *)
(* reporting layer over the unit_snapshot mart table, the                  *)
(* unit_competitor_pairs mart table and the Competition table.             *)
(*                                                                         *)
(* The warehouse is part of the state (the three tables).  Every public    *)
(* method is one action; the outcome of each query the method issues       *)
(* (rows, or an exception raised by the engine) is an input of the action. *)
(* The outcome of the last call is kept in op / args / outcome / result /  *)
(* queries / log so that properties of the returned values can be stated.  *)
(*                                                                         *)
(* Numbers: rents are whole dollars; rent-per-sqft values and percentages  *)
(* are kept as exact scaled integers (hundredths, tenths).  SQL NULL in a  *)
(* numeric column is NULL (a number no column and no computation holds),  *)
(* SQL NULL in a string column is NullStr, Python None is None.            *)
(***************************************************************************)
EXTENDS Integers, Sequences, FiniteSets, TLC

VARIABLES
    _rentroll_table,        \* self._rentroll_table
    _competition_table,     \* self._competition_table
    _project_id,            \* self._project_id
    unit_snapshot,          \* rows of <project>.<mart>.unit_snapshot
    unit_competitor_pairs,  \* rows of <project>.<mart>.unit_competitor_pairs
    Competition,            \* rows of the competition table
    op,                     \* name of the last method called
    args,                   \* its arguments
    outcome,                \* "idle" | "returned" | "raised"
    result,                 \* the value returned, or the exception raised
    queries,                \* the queries the last call sent to the engine
    log,                    \* the log records the last call emitted
    paging,                 \* a caller walking get_units page by page
    loop                    \* the event loop: coroutines scheduled and suspended

settings_vars == <<_rentroll_table, _competition_table, _project_id>>
warehouse_vars == <<unit_snapshot, unit_competitor_pairs, Competition>>
call_vars == <<op, args, outcome, result, queries, log>>
vars == <<_rentroll_table, _competition_table, _project_id, unit_snapshot,
          unit_competitor_pairs, Competition, op, args, outcome, result,
          queries, log, paging, loop>>

----------------------------------------------------------------------------
(* Bounds of the model *)

MaxUnits == 3
MaxComps == 3
MaxPairs == 2
MaxPage == 2
MaxPageSize == 2

----------------------------------------------------------------------------
(* Values *)

NULL == -9999999
NullStr == "<NULL>"
None == "<None>"

\* settings.gcp_project_id, settings.bigquery_dataset_mart (app.config)
gcp_project_id == "proj0"
mart_dataset == "mart"

\* Python truthiness of an Optional[str]
Truthy(s) == s # None /\ s # ""

Min(a, b) == IF a <= b THEN a ELSE b
Max(a, b) == IF a >= b THEN a ELSE b

\* Lexicographic order of the strings that occur in ordered columns, as the
\* engine compares them (NULL sorts before every value).
StrRank(s) ==
    CASE s = NullStr -> 0
      [] s = "1BR" -> 1
      [] s = "2BR" -> 2
      [] s = "CompA" -> 3
      [] s = "CompB" -> 4
      [] s = "HIGH" -> 5
      [] s = "IMMEDIATE" -> 6
      [] s = "LOW" -> 7
      [] s = "MEDIUM" -> 8
      [] s = "Maple" -> 9
      [] s = "Oak" -> 10
      [] s = "Pine" -> 11
      [] s = "STUDIO" -> 12
      [] OTHER -> 13

----------------------------------------------------------------------------
(* Table-name resolver *)

get_rentroll_table ==
    IF Truthy(_rentroll_table) THEN _rentroll_table
    ELSE gcp_project_id \o ".rentroll.Update_7_8_native"

\* The accessor without its truthiness test: the override is returned as stored
get_competition_table_as_stored == _competition_table

get_competition_table ==
    IF Truthy(_competition_table) THEN _competition_table
    ELSE gcp_project_id \o ".rentroll.Competition"

\* The name built from the project id the settings hold
_get_table_name_from_settings(dataset, table) ==
    _project_id \o "." \o dataset \o "." \o table

\* The fully qualified name (the quoting characters around it are left out).
_get_table_name(dataset, table) ==
    gcp_project_id \o "." \o dataset \o "." \o table

----------------------------------------------------------------------------
(* The warehouse: rows the tables can hold *)

\* Rows of unit_snapshot without their unit_id.  has_complete_data is FALSE
\* on rows whose rent columns are NULL.
UnitProfiles == <<
    [property |-> "Maple", bed |-> 1, unit_type |-> "1BR", sqft |-> 700,
     status |-> "VACANT", advertised_rent |-> 1000, rent_per_sqft |-> 143,
     needs_pricing |-> TRUE, pricing_urgency |-> "IMMEDIATE",
     annual_revenue_potential |-> 12000, has_complete_data |-> TRUE],
    [property |-> "Oak", bed |-> 1, unit_type |-> "1BR", sqft |-> 800,
     status |-> "VACANT", advertised_rent |-> 1200, rent_per_sqft |-> 150,
     needs_pricing |-> TRUE, pricing_urgency |-> "MEDIUM",
     annual_revenue_potential |-> 14400, has_complete_data |-> TRUE],
    [property |-> "Maple", bed |-> 1, unit_type |-> "1BR", sqft |-> 750,
     status |-> "NOTICE", advertised_rent |-> 1100, rent_per_sqft |-> 147,
     needs_pricing |-> TRUE, pricing_urgency |-> "HIGH",
     annual_revenue_potential |-> 13200, has_complete_data |-> TRUE],
    [property |-> "Maple", bed |-> 2, unit_type |-> "2BR", sqft |-> 1000,
     status |-> "OCCUPIED", advertised_rent |-> 1200, rent_per_sqft |-> 120,
     needs_pricing |-> FALSE, pricing_urgency |-> "LOW",
     annual_revenue_potential |-> 14400, has_complete_data |-> TRUE],
    [property |-> "Maple", bed |-> 0, unit_type |-> "STUDIO", sqft |-> 500,
     status |-> "OCCUPIED", advertised_rent |-> NULL, rent_per_sqft |-> NULL,
     needs_pricing |-> TRUE, pricing_urgency |-> NullStr,
     annual_revenue_potential |-> NULL, has_complete_data |-> FALSE],
    [property |-> "Oak", bed |-> 2, unit_type |-> "2BR", sqft |-> 1000,
     status |-> "VACANT", advertised_rent |-> 1500, rent_per_sqft |-> 150,
     needs_pricing |-> TRUE, pricing_urgency |-> "IMMEDIATE",
     annual_revenue_potential |-> 18000, has_complete_data |-> TRUE],
    [property |-> "Maple", bed |-> 2, unit_type |-> "2BR", sqft |-> 1000,
     status |-> "NOTICE", advertised_rent |-> 1300, rent_per_sqft |-> 130,
     needs_pricing |-> TRUE, pricing_urgency |-> "LOW",
     annual_revenue_potential |-> 15600, has_complete_data |-> TRUE] >>

\* The profiles the reports are checked over, and those that add the
\* remaining urgency levels for the vacancy list
CoreProfiles == 1..5
VacancyProfiles == {1, 2, 3, 4, 5, 6, 7}

Unit(id, p) == [unit_id |-> id] @@ UnitProfiles[p]

\* A table with at most one row per unit_id in 1..MaxUnits: f[i] = 0 when the
\* unit is absent, else the profile of its row.
UnitTable(f) == {Unit(i, f[i]) : i \in {j \in DOMAIN f : f[j] # 0}}

UnitTables == {UnitTable(f) : f \in [1..MaxUnits -> {0} \cup CoreProfiles]}

VacancyTables == {UnitTable(f) : f \in [1..MaxUnits -> {0} \cup VacancyProfiles]}

\* A smaller family used where the competition data varies as well: unit i is
\* absent or has one of two profiles that depend on i.
FixtureProfiles(i) ==
    {((i - 1) % Cardinality(CoreProfiles)) + 1, ((i + 1) % Cardinality(CoreProfiles)) + 1}

FixtureUnitTables ==
    {UnitTable(f) : f \in {g \in [1..MaxUnits -> {0} \cup CoreProfiles] :
                              \A i \in DOMAIN g : g[i] = 0 \/ g[i] \in FixtureProfiles(i)}}

PropertyNames == {"Maple", "Oak", "Pine"}

\* Rows of the competition table; row is the position of the listing in the
\* table (the table has no key of its own).
CompProfiles == <<
    [Property |-> "CompA", Bed |-> "1 Bed", Sq_Ft |-> 720, Base_Price |-> 1050,
     Availability |-> "Available"],
    [Property |-> "CompA", Bed |-> "1 Bed", Sq_Ft |-> 800, Base_Price |-> 1255,
     Availability |-> "Leased"],
    [Property |-> "CompB", Bed |-> "2 Beds", Sq_Ft |-> 1000, Base_Price |-> 1600,
     Availability |-> "Available Now"] >>

\* Listing j, when present, has profile ((j-1) mod number of profiles) + 1
CompetitionTables ==
    {{[row |-> j] @@ CompProfiles[((j - 1) % Len(CompProfiles)) + 1] : j \in S}
        : S \in SUBSET (1..MaxComps)}

\* Rows of unit_competitor_pairs: pair j, when present, links a unit to the
\* comp listing j at one of two prices.
PairProfiles == << [unit_id |-> 1, comp_price |-> 900, comp_sqft |-> 700],
                   [unit_id |-> 1, comp_price |-> 1300, comp_sqft |-> 800],
                   [unit_id |-> 2, comp_price |-> 1300, comp_sqft |-> 800],
                   [unit_id |-> 3, comp_price |-> 1210, comp_sqft |-> 1000] >>

Pair(j, p) == [comp_id |-> j, comp_rank |-> j] @@ PairProfiles[p]

PairTables ==
    {{Pair(j, f[j]) : j \in {k \in DOMAIN f : f[k] # 0}}
        : f \in [1..MaxPairs -> 0..Len(PairProfiles)]}

----------------------------------------------------------------------------
(* The query engine *)

\* ORDER BY: the rows of S by ascending key; a key is a tuple of integers of
\* one length, compared lexicographically.
TupLess(a, b) ==
    \E i \in 1..Len(a) : a[i] < b[i] /\ \A j \in 1..(i - 1) : a[j] = b[j]

RECURSIVE SortKeyed(_)
SortKeyed(P) ==
    IF P = {} THEN <<>>
    ELSE LET m == CHOOSE x \in P : \A y \in P : ~TupLess(y[1], x[1])
         IN <<m[2]>> \o SortKeyed(P \ {m})

OrderBy(S, Key(_)) == SortKeyed({<<Key(x), x>> : x \in S})

\* LIMIT n OFFSET k over an ordered result (n, k >= 0)
LimitOffset(rows, n, k) == SubSeq(rows, k + 1, Min(k + n, Len(rows)))

\* The engine rejects a negative LIMIT or OFFSET
ValidLimit(n) == n >= 0

Range(seq) == {seq[i] : i \in DOMAIN seq}

\* A query sent to the engine: its statement (every text of the service is a
\* SELECT, some behind a WITH), what it selects and the tables its text names
Query(kind, tables) ==
    [verb |-> "SELECT", kind |-> kind, tables |-> tables, raised |-> FALSE]

\* The same, with whether the engine raised on it
QueryR(kind, tables, raised) ==
    [verb |-> "SELECT", kind |-> kind, tables |-> tables, raised |-> raised]

\* The engine raised on the last query of qs
FailLast(qs) == [qs EXCEPT ![Len(qs)].raised = TRUE]

UnitSnapshotName == _get_table_name(mart_dataset, "unit_snapshot")
PairsName == _get_table_name(mart_dataset, "unit_competitor_pairs")

\* SUM(col) / COUNT(col) over the rows whose col is not NULL
RECURSIVE SumCol(_, _)
SumCol(S, c) ==
    IF S = {} THEN 0
    ELSE LET x == CHOOSE y \in S : TRUE
         IN (IF x[c] = NULL THEN 0 ELSE x[c]) + SumCol(S \ {x}, c)

CountCol(S, c) == Cardinality({x \in S : x[c] # NULL})

\* SUM(col): NULL over no non-NULL value
SqlSum(S, c) == IF CountCol(S, c) = 0 THEN NULL ELSE SumCol(S, c)

\* AVG(col) as the exact fraction num / den; den = 0 is SQL NULL
SqlAvg(S, c) == [num |-> SumCol(S, c), den |-> CountCol(S, c)]

----------------------------------------------------------------------------
(* Calls: how a method ends *)

\* An Optional value: <<>> is None, <<v>> is v
Some(v) == <<v>>
Nothing == <<>>

Returns(name, a, value, qs, lg) ==
    /\ op' = name
    /\ args' = a
    /\ outcome' = "returned"
    /\ result' = value
    /\ queries' = qs
    /\ log' = lg

\* The exception leaves the method: `raise` in the handler
Raises(name, a, exc, qs, lg) ==
    /\ op' = name
    /\ args' = a
    /\ outcome' = "raised"
    /\ result' = [exc |-> exc]
    /\ queries' = qs
    /\ log' = lg

\* The caller has taken the outcome of its call; the service keeps nothing of it
Complete ==
    /\ outcome \in {"returned", "raised"}
    /\ op' = "none"
    /\ args' = <<>>
    /\ outcome' = "idle"
    /\ result' = <<>>
    /\ queries' = <<>>
    /\ log' = <<>>
    /\ UNCHANGED <<settings_vars, warehouse_vars, paging, loop>>

----------------------------------------------------------------------------
(* Table settings *)

SettingsValues == [rentroll_table : {None, "", "proj1.rentroll.New"},
                   competition_table : {None, "", "proj1.rentroll.Comp2"},
                   project_id : {"proj1"}]

set_table_settings(table_settings) ==
    /\ outcome = "idle"
    /\ _rentroll_table' = table_settings.rentroll_table
    /\ _competition_table' = table_settings.competition_table
    /\ _project_id' = table_settings.project_id
    /\ Returns("set_table_settings", table_settings, Nothing, <<>>, <<>>)
    /\ UNCHANGED <<warehouse_vars, paging, loop>>

call_get_rentroll_table ==
    /\ outcome = "idle"
    /\ Returns("get_rentroll_table", <<>>, get_rentroll_table, <<>>, <<>>)
    /\ UNCHANGED <<settings_vars, warehouse_vars, paging, loop>>

call_get_competition_table ==
    /\ outcome = "idle"
    /\ Returns("get_competition_table", <<>>, get_competition_table, <<>>, <<>>)
    /\ UNCHANGED <<settings_vars, warehouse_vars, paging, loop>>

----------------------------------------------------------------------------
(* Connectivity probe *)

\* fails: the positions, in the order the call issues its queries, of the
\* queries on which the engine raises
\* The probe sent a second time when the first attempt fails
test_connection_retrying(fails) ==
    /\ outcome = "idle"
    /\ IF 1 \in fails
       THEN Returns("test_connection", <<>>, TRUE,
                    FailLast(<<Query("probe", {})>>) \o <<Query("probe", {})>>,
                    <<"error">>)
       ELSE Returns("test_connection", <<>>, TRUE, <<Query("probe", {})>>, <<>>)
    /\ UNCHANGED <<settings_vars, warehouse_vars, paging, loop>>

test_connection(fails) ==
    /\ outcome = "idle"
    /\ IF 1 \in fails
       THEN Returns("test_connection", <<>>, FALSE,
                    FailLast(<<Query("probe", {})>>), <<"error">>)
       ELSE Returns("test_connection", <<>>, TRUE, <<Query("probe", {})>>, <<>>)
    /\ UNCHANGED <<settings_vars, warehouse_vars, paging, loop>>

----------------------------------------------------------------------------
(* Inventory listing *)

\* where_conditions joined by AND, as a predicate on a row
where_clause(u, status_filter, property_filter, needs_pricing_only) ==
    /\ u.has_complete_data
    /\ Truthy(status_filter) => u.status = status_filter
    /\ Truthy(property_filter) => u.property = property_filter
    /\ needs_pricing_only => u.needs_pricing

\* ORDER BY CASE WHEN needs_pricing THEN 0 ELSE 1 END, pricing_urgency DESC,
\*          property, unit_id
get_units_order(u) ==
    << IF u.needs_pricing THEN 0 ELSE 1,
       0 - StrRank(u.pricing_urgency),
       StrRank(u.property),
       u.unit_id >>

\* The offset counted from page 0 instead of page 1
get_units_offset_from_zero(page, page_size) == page * page_size

get_units_offset(page, page_size) == (page - 1) * page_size

\* The data query without its LIMIT: every row from the offset on
get_units_data_unlimited(page, page_size, status_filter, property_filter, needs_pricing_only) ==
    LET rows == OrderBy({u \in unit_snapshot :
                    where_clause(u, status_filter, property_filter, needs_pricing_only)},
                get_units_order)
    IN  SubSeq(rows, get_units_offset(page, page_size) + 1, Len(rows))

\* The rows the data query selects
get_units_data(page, page_size, status_filter, property_filter, needs_pricing_only) ==
    LimitOffset(
        OrderBy({u \in unit_snapshot :
                    where_clause(u, status_filter, property_filter, needs_pricing_only)},
                get_units_order),
        page_size, get_units_offset(page, page_size))

\* The count taken over every complete row, whatever the filters
get_units_count_unfiltered(status_filter, property_filter, needs_pricing_only) ==
    Cardinality({u \in unit_snapshot : u.has_complete_data})

\* The value the count query selects
get_units_count(status_filter, property_filter, needs_pricing_only) ==
    Cardinality({u \in unit_snapshot :
                    where_clause(u, status_filter, property_filter, needs_pricing_only)})

DefaultPage == 1
DefaultPageSize == 50

FilterSets == [status_filter : {None, "VACANT"},
               property_filter : {None, "Maple"},
               needs_pricing_only : BOOLEAN]

\* The calls that leave page and page_size at their defaults
DefaultPageArgs == {[page |-> DefaultPage, page_size |-> DefaultPageSize] @@ f
                       : f \in FilterSets}

GetUnitsArgs == [page : 0..MaxPage, page_size : (0 - 1)..MaxPageSize,
                 status_filter : {None, "VACANT"},
                 property_filter : {None, "Maple"},
                 needs_pricing_only : BOOLEAN]

\* The calls of the first page with each filter absent, empty or given
FilterArgs == [page : {DefaultPage}, page_size : {MaxPageSize, DefaultPageSize},
               status_filter : {None, "", "VACANT"},
               property_filter : {None, "", "Maple"},
               needs_pricing_only : BOOLEAN]

\* The outcome of get_units(a) when the engine raises on the queries in fails:
\* <<outcome, value, queries>>
get_units_run(a, fails) ==
    LET count_q == Query("count", {UnitSnapshotName})
        data_q == Query("data", {UnitSnapshotName})
    IN  IF 1 \in fails
        THEN <<"raised", [exc |-> "engine"], FailLast(<<count_q>>)>>
        ELSE IF \/ 2 \in fails
                \/ ~ValidLimit(a.page_size)
                \/ ~ValidLimit(get_units_offset(a.page, a.page_size))
        THEN <<"raised", [exc |-> "engine"], FailLast(<<count_q, data_q>>)>>
        ELSE <<"returned",
               [units |-> get_units_data(a.page, a.page_size, a.status_filter,
                                         a.property_filter, a.needs_pricing_only),
                total_count |-> get_units_count(a.status_filter, a.property_filter,
                                                a.needs_pricing_only)],
               <<count_q, data_q>>>>

\* What a call of get_units(a) leaves behind
get_units_call(a, r) ==
    /\ op' = "get_units"
    /\ args' = a
    /\ outcome' = r[1]
    /\ result' = r[2]
    /\ queries' = r[3]
    /\ log' = IF r[1] = "raised" THEN <<"error">> ELSE <<>>

get_units(a, fails) ==
    /\ outcome = "idle"
    /\ get_units_call(a, get_units_run(a, fails))
    /\ UNCHANGED <<settings_vars, warehouse_vars, paging, loop>>

\* A caller that lists the units page by page: page 1, 2, ... of one filter
\* set and one page size, until a page comes back empty
StartPaging(a) ==
    /\ outcome = "idle"
    /\ paging.state = "idle"
    /\ paging' = [state |-> "walking", filters |-> a, page |-> 1,
                  units |-> <<>>, totals |-> {}]
    /\ UNCHANGED <<settings_vars, warehouse_vars, call_vars, loop>>

NextPage(fails) ==
    /\ outcome = "idle"
    /\ paging.state = "walking"
    /\ LET a == [paging.filters EXCEPT !.page = paging.page]
           r == get_units_run(a, fails)
       IN  /\ get_units_call(a, r)
           /\ paging' =
                 IF r[1] = "raised" THEN [paging EXCEPT !.state = "failed"]
                 ELSE IF r[2].units = <<>>
                 THEN [paging EXCEPT !.state = "done",
                                     !.totals = @ \cup {r[2].total_count}]
                 ELSE [paging EXCEPT !.page = @ + 1,
                                     !.units = @ \o r[2].units,
                                     !.totals = @ \cup {r[2].total_count}]
    /\ UNCHANGED <<settings_vars, warehouse_vars, loop>>

\* The handler of get_unit_by_id ending in `return None` instead of `raise`
get_unit_by_id_swallowing(unit_id, fails) ==
    /\ outcome = "idle"
    /\ LET q == <<Query("unit", {UnitSnapshotName})>>
           rows == {u \in unit_snapshot : u.unit_id = unit_id}
       IN  Returns("get_unit_by_id", [unit_id |-> unit_id],
                   IF rows # {} /\ 1 \notin fails
                   THEN Some(CHOOSE u \in rows : TRUE) ELSE Nothing,
                   IF 1 \in fails THEN FailLast(q) ELSE q,
                   IF 1 \in fails THEN <<"error">> ELSE <<>>)
    /\ UNCHANGED <<settings_vars, warehouse_vars, paging, loop>>

get_unit_by_id(unit_id, fails) ==
    /\ outcome = "idle"
    /\ LET q == <<Query("unit", {UnitSnapshotName})>>
           rows == {u \in unit_snapshot : u.unit_id = unit_id}
       IN  IF 1 \in fails
           THEN Raises("get_unit_by_id", [unit_id |-> unit_id], "engine", FailLast(q), <<"error">>)
           ELSE Returns("get_unit_by_id", [unit_id |-> unit_id],
                        IF rows # {} THEN Some(CHOOSE u \in rows : TRUE) ELSE Nothing,
                        q, <<>>)
    /\ UNCHANGED <<settings_vars, warehouse_vars, paging, loop>>

\* The CASE with the ranks of IMMEDIATE and HIGH exchanged
urgency_rank_exchanged(u) ==
    CASE u.pricing_urgency = "HIGH" -> 0
      [] u.pricing_urgency = "IMMEDIATE" -> 1
      [] u.pricing_urgency = "MEDIUM" -> 2
      [] OTHER -> 3

\* CASE pricing_urgency WHEN 'IMMEDIATE' THEN 0 ... ELSE 3 END
urgency_rank(u) ==
    CASE u.pricing_urgency = "IMMEDIATE" -> 0
      [] u.pricing_urgency = "HIGH" -> 1
      [] u.pricing_urgency = "MEDIUM" -> 2
      [] OTHER -> 3

get_vacant_units_order(u) ==
    <<urgency_rank(u), StrRank(u.property), u.unit_id>>

VacantColumns == {"unit_id", "property", "bed", "sqft", "status", "advertised_rent",
                  "rent_per_sqft", "pricing_urgency", "unit_type"}

Project(u, cols) == [c \in cols |-> u[c]]

MapSeq(seq, F(_)) == [i \in DOMAIN seq |-> F(seq[i])]

vacant_where(u) == u.needs_pricing /\ u.has_complete_data

\* The query built without a LIMIT clause whatever the cap
limit_clause_dropped(limit) == FALSE

\* limit_clause = f"LIMIT {limit}" if limit else "": whether the text has a
\* LIMIT clause; limit is Nothing or Some(n), and 0 is falsy as None is
limit_clause(limit) == limit # Nothing /\ limit[1] # 0

get_vacant_units(limit, fails) ==
    /\ outcome = "idle"
    /\ LET q == <<Query("vacant", {UnitSnapshotName})>>
           a == [limit |-> limit]
           has_clause == limit_clause(limit)
           ordered == OrderBy({u \in unit_snapshot : vacant_where(u)},
                              get_vacant_units_order)
           rows == IF has_clause THEN LimitOffset(ordered, limit[1], 0) ELSE ordered
           row(u) == Project(u, VacantColumns)
       IN  IF 1 \in fails \/ (has_clause /\ ~ValidLimit(limit[1]))
           THEN Raises("get_vacant_units", a, "engine", FailLast(q), <<"error">>)
           ELSE Returns("get_vacant_units", a, MapSeq(rows, row), q, <<>>)
    /\ UNCHANGED <<settings_vars, warehouse_vars, paging, loop>>

VacantLimits == {Nothing} \cup {Some(n) : n \in (0 - 1)..MaxUnits}

----------------------------------------------------------------------------
(* Arithmetic of the engine and of the client *)

Abs(n) == IF n < 0 THEN 0 - n ELSE n

\* ROUND(n / d, 0) of the engine, d > 0: halves round away from zero
SqlRound(n, d) ==
    IF n >= 0 THEN (2 * n + d) \div (2 * d)
    ELSE 0 - ((2 * (0 - n) + d) \div (2 * d))

\* All the orders in which the engine may return the rows of S under an
\* ORDER BY key that can tie
Orderings(S, Key(_)) ==
    {seq \in [1..Cardinality(S) -> S] :
        /\ \A i, j \in DOMAIN seq : i # j => seq[i] # seq[j]
        /\ \A i \in DOMAIN seq : \A j \in DOMAIN seq :
              i < j => ~TupLess(Key(seq[j]), Key(seq[i]))}

----------------------------------------------------------------------------
(* Comparables, property list, unit-type summary *)

\* The handler of get_unit_comparables also dropping the rentroll override
\* when it falls back to the empty frame
get_unit_comparables_resetting(unit_id, fails) ==
    /\ outcome = "idle"
    /\ LET q == <<Query("comparables", {PairsName})>>
           a == [unit_id |-> unit_id]
           key(r) == <<r.comp_rank>>
           df == OrderBy({r \in unit_competitor_pairs : r.unit_id = unit_id}, key)
       IN  IF 1 \in fails
           THEN Returns("get_unit_comparables", a, <<>>, FailLast(q), <<"error">>)
           ELSE Returns("get_unit_comparables", a, df, q, <<>>)
    /\ _rentroll_table' = IF 1 \in fails THEN None ELSE _rentroll_table
    /\ UNCHANGED <<_competition_table, _project_id, warehouse_vars, paging, loop>>

get_unit_comparables(unit_id, fails) ==
    /\ outcome = "idle"
    /\ LET q == <<Query("comparables", {PairsName})>>
           a == [unit_id |-> unit_id]
           key(r) == <<r.comp_rank>>
           df == OrderBy({r \in unit_competitor_pairs : r.unit_id = unit_id}, key)
       IN  IF 1 \in fails
           THEN Returns("get_unit_comparables", a, <<>>, FailLast(q), <<"error">>)
           ELSE Returns("get_unit_comparables", a, df, q, <<>>)
    /\ UNCHANGED <<settings_vars, warehouse_vars, paging, loop>>

\* The handler of get_properties ending in `raise` instead of `return []`
get_properties_reraising(fails) ==
    /\ outcome = "idle"
    /\ LET q == <<Query("properties", {UnitSnapshotName})>>
           key(name) == <<StrRank(name)>>
           names == {u.property : u \in unit_snapshot} \ {NullStr}
       IN  IF 1 \in fails
           THEN Raises("get_properties", <<>>, "engine", FailLast(q), <<"error">>)
           ELSE Returns("get_properties", <<>>, OrderBy(names, key), q, <<>>)
    /\ UNCHANGED <<settings_vars, warehouse_vars, paging, loop>>

get_properties(fails) ==
    /\ outcome = "idle"
    /\ LET q == <<Query("properties", {UnitSnapshotName})>>
           key(name) == <<StrRank(name)>>
           names == {u.property : u \in unit_snapshot} \ {NullStr}
       IN  IF 1 \in fails
           THEN Returns("get_properties", <<>>, <<>>, FailLast(q), <<"error">>)
           ELSE Returns("get_properties", <<>>, OrderBy(names, key), q, <<>>)
    /\ UNCHANGED <<settings_vars, warehouse_vars, paging, loop>>

\* float(avg) if avg else 0: a NULL or zero average becomes 0
avg_or_zero(avg) ==
    IF avg.den = 0 \/ avg.num = 0 THEN [num |-> 0, den |-> 1] ELSE avg

\* The summary as a function from unit_type to its statistics; a failed query
\* gives the empty dict
unit_types_summary ==
    LET complete == {u \in unit_snapshot : u.has_complete_data}
        of(t) == {u \in complete : u.unit_type = t}
    IN  [t \in {u.unit_type : u \in complete} |->
            [total_units |-> Cardinality(of(t)),
             units_needing_pricing |-> Cardinality({u \in of(t) : u.needs_pricing}),
             avg_rent |-> avg_or_zero(SqlAvg(of(t), "advertised_rent")),
             avg_rent_per_sqft |-> avg_or_zero(SqlAvg(of(t), "rent_per_sqft"))]]

get_unit_types_summary(fails) ==
    /\ outcome = "idle"
    /\ LET q == <<Query("unit_types", {UnitSnapshotName})>>
       IN  IF 1 \in fails
           THEN Returns("get_unit_types_summary", <<>>, <<>>, FailLast(q), <<"error">>)
           ELSE Returns("get_unit_types_summary", <<>>, unit_types_summary, q, <<>>)
    /\ UNCHANGED <<settings_vars, warehouse_vars, paging, loop>>

----------------------------------------------------------------------------
(* Portfolio and market analytics *)

\* SUM(CASE WHEN P THEN 1 ELSE 0 END): NULL over no rows
SumCase(S, P(_)) == IF S = {} THEN NULL ELSE Cardinality({u \in S : P(u)})

IsVacant(u) == u.status = "VACANT"
IsOccupied(u) == u.status = "OCCUPIED"
IsNotice(u) == u.status = "NOTICE"
NeedsPricing(u) == u.needs_pricing

\* SUM(CASE WHEN status = 'OCCUPIED' THEN advertised_rent * 12 ELSE 0 END)
current_annual_revenue(S) ==
    LET counted == {u \in S : ~(IsOccupied(u) /\ u.advertised_rent = NULL)}
    IN  IF counted = {} THEN NULL
        ELSE 12 * SumCol({u \in counted : IsOccupied(u)}, "advertised_rent")

\* The aggregate row both the portfolio and the performance query select
\* (the rent averages of the row are not modelled)
metrics_row(S) ==
    [total_units |-> Cardinality(S),
     vacant_units |-> SumCase(S, IsVacant),
     occupied_units |-> SumCase(S, IsOccupied),
     notice_units |-> SumCase(S, IsNotice),
     units_needing_pricing |-> SumCase(S, NeedsPricing),
     total_revenue_potential |-> SqlSum(S, "annual_revenue_potential"),
     current_annual_revenue |-> current_annual_revenue(S)]

\* The rate with the guard admitting total = 0
occupancy_rate_dividing(occupied_units, total_units) ==
    IF total_units >= 0
    THEN [num |-> occupied_units * 100, den |-> total_units]
    ELSE [num |-> 0, den |-> 1]

\* occupied / total * 100 if total > 0 else 0, as the exact fraction num / den;
\* den = 0 stands for a division by zero
occupancy_rate(occupied_units, total_units) ==
    IF total_units > 0
    THEN [num |-> occupied_units * 100, den |-> total_units]
    ELSE [num |-> 0, den |-> 1]

urgency_breakdown ==
    LET S == {u \in unit_snapshot : u.needs_pricing}
    IN  {[pricing_urgency |-> g,
          unit_count |-> Cardinality({u \in S : u.pricing_urgency = g})]
            : g \in {u.pricing_urgency : u \in S}}

property_rows ==
    {[property |-> g,
      total_units |-> Cardinality({u \in unit_snapshot : u.property = g}),
      vacant_units |-> Cardinality({u \in unit_snapshot : u.property = g /\ IsVacant(u)}),
      revenue_potential |-> SqlSum({u \in unit_snapshot : u.property = g},
                                   "annual_revenue_potential")]
        : g \in {u.property : u \in unit_snapshot}}

\* ORDER BY revenue_potential DESC (NULL last)
revenue_desc(r) ==
    <<IF r.revenue_potential = NULL THEN 1 ELSE 0 - r.revenue_potential>>

PropertyLimit == 10

\* The derived metrics added to the aggregate row: <<exception or "", row>>
portfolio_derive(row) ==
    LET rate == occupancy_rate(row.occupied_units, row.total_units)
        with_rate == [occupancy_rate |-> rate] @@ row
    IN  IF rate.den = 0 THEN <<"ZeroDivisionError", row>>
        ELSE IF row.total_revenue_potential = NULL \/ row.current_annual_revenue = NULL
        THEN <<"TypeError", with_rate>>
        ELSE <<"", [revenue_optimization_potential |->
                       row.total_revenue_potential - row.current_annual_revenue]
                   @@ with_rate>>

get_portfolio_analytics(fails) ==
    /\ outcome = "idle"
    /\ LET q1 == <<Query("portfolio", {UnitSnapshotName})>>
           q2 == q1 \o <<Query("urgency", {UnitSnapshotName})>>
           q3 == q2 \o <<Query("property_performance", {UnitSnapshotName})>>
           d == portfolio_derive(metrics_row(unit_snapshot))
       IN  CASE 1 \in fails ->
                   Raises("get_portfolio_analytics", <<>>, "engine", FailLast(q1), <<"error">>)
             [] 1 \notin fails /\ 2 \in fails ->
                   Raises("get_portfolio_analytics", <<>>, "engine", FailLast(q2), <<"error">>)
             [] {1, 2} \cap fails = {} /\ 3 \in fails ->
                   Raises("get_portfolio_analytics", <<>>, "engine", FailLast(q3), <<"error">>)
             [] {1, 2, 3} \cap fails = {} /\ d[1] # "" ->
                   /\ op' = "get_portfolio_analytics"
                   /\ args' = <<>>
                   /\ outcome' = "raised"
                   /\ result' = [exc |-> d[1], portfolio |-> d[2]]
                   /\ queries' = q3
                   /\ log' = <<"error">>
             [] OTHER ->
                   \E perf \in Orderings(property_rows, revenue_desc) :
                       Returns("get_portfolio_analytics", <<>>,
                               [portfolio |-> d[2],
                                urgency_breakdown |-> urgency_breakdown,
                                property_performance |->
                                    LimitOffset(perf, PropertyLimit, 0)],
                               q3, <<>>)
    /\ UNCHANGED <<settings_vars, warehouse_vars, paging, loop>>

\* The LEFT JOIN of a unit with AVG(comp_price) of its pairs (den = 0: no pair)
avg_comp_price(u) ==
    SqlAvg({r \in unit_competitor_pairs : r.unit_id = u.unit_id}, "comp_price")

\* CASE ... END as market_position of unit_comp_analysis; a comparison with a
\* NULL operand is not true
market_position(u) ==
    LET c == avg_comp_price(u)
        known == c.den # 0 /\ u.advertised_rent # NULL
    IN  IF known /\ u.advertised_rent * c.den > c.num THEN "ABOVE_MARKET"
        ELSE IF known /\ u.advertised_rent * c.den * 100 < c.num * 95 THEN "BELOW_MARKET"
        ELSE "AT_MARKET"

\* ROUND((rent - avg) / avg * 100, 1) in tenths of a percent, NULL without a
\* comp average or without a rent
premium_discount_pct(u) ==
    LET c == avg_comp_price(u)
    IN  IF c.den = 0 \/ u.advertised_rent = NULL THEN NULL
        ELSE SqlRound((u.advertised_rent * c.den - c.num) * 1000, c.num)

\* The summary without WHERE premium_discount_pct IS NOT NULL
market_summary_unfiltered ==
    {[market_position |-> g,
      unit_count |-> Cardinality({u \in unit_snapshot : market_position(u) = g})]
        : g \in {market_position(u) : u \in unit_snapshot}}

\* The rows of the market summary (the two averages of a row are not modelled)
market_summary ==
    LET S == {u \in unit_snapshot : premium_discount_pct(u) # NULL}
    IN  {[market_position |-> g,
          unit_count |-> Cardinality({u \in S : market_position(u) = g})]
            : g \in {market_position(u) : u \in S}}

\* The rows of the unit-type comparison (the rent-per-sqft averages of a row
\* are not modelled)
unit_type_comparison ==
    LET S == {u \in unit_snapshot : avg_comp_price(u).den # 0}
    IN  {[unit_type |-> g,
          total_units |-> Cardinality({u \in S : u.unit_type = g})]
            : g \in {u.unit_type : u \in S}}

get_market_position_analytics(fails) ==
    /\ outcome = "idle"
    /\ LET q1 == <<Query("market_summary", {UnitSnapshotName, PairsName})>>
           q2 == q1 \o <<Query("unit_type_comparison", {UnitSnapshotName, PairsName})>>
       IN  CASE 1 \in fails ->
                   Raises("get_market_position_analytics", <<>>, "engine", FailLast(q1), <<"error">>)
             [] 1 \notin fails /\ 2 \in fails ->
                   Raises("get_market_position_analytics", <<>>, "engine", FailLast(q2), <<"error">>)
             [] OTHER ->
                   Returns("get_market_position_analytics", <<>>,
                           [market_summary |-> market_summary,
                            unit_type_comparison |-> unit_type_comparison],
                           q2, <<>>)
    /\ UNCHANGED <<settings_vars, warehouse_vars, paging, loop>>

\* ROUND(avg_comp_price - advertised_rent, 0), NULL without a comp average or
\* without a rent
pricing_increase(u) ==
    LET c == avg_comp_price(u)
    IN  IF c.den = 0 \/ u.advertised_rent = NULL THEN NULL
        ELSE SqlRound(c.num - u.advertised_rent * c.den, c.den)

\* ROUND((avg_comp_price - advertised_rent) * 12, 0)
pricing_annual(u) ==
    LET c == avg_comp_price(u)
    IN  IF c.den = 0 \/ u.advertised_rent = NULL THEN NULL
        ELSE SqlRound((c.num - u.advertised_rent * c.den) * 12, c.den)

\* The aggregate row of the summary query; its sums are NULL over no rows
pricing_summary ==
    LET S == unit_snapshot
        gt50(u) == pricing_increase(u) # NULL /\ pricing_increase(u) > 50
        gt100(u) == pricing_increase(u) # NULL /\ pricing_increase(u) > 100
        pos == {u \in S : pricing_increase(u) # NULL /\ pricing_increase(u) > 0}
        monthly == {[unit_id |-> u.unit_id, v |-> pricing_increase(u)] : u \in pos}
        annual == {[unit_id |-> u.unit_id, v |-> pricing_annual(u)] : u \in pos}
    IN  [units_with_50plus_opportunity |-> SumCase(S, gt50),
         units_with_100plus_opportunity |-> SumCase(S, gt100),
         total_monthly_opportunity |-> IF S = {} THEN NULL ELSE SumCol(monthly, "v"),
         total_annual_opportunity |-> IF S = {} THEN NULL ELSE SumCol(annual, "v"),
         avg_opportunity_per_unit |-> SqlAvg(monthly, "v")]

top_opportunity_rows ==
    {[unit_id |-> u.unit_id, property |-> u.property,
      advertised_rent |-> u.advertised_rent,
      potential_rent_increase |-> pricing_increase(u),
      annual_revenue_opportunity |-> pricing_annual(u)]
        : u \in {v \in unit_snapshot :
                    pricing_increase(v) # NULL /\ pricing_increase(v) > 0}}

annual_desc(r) == <<0 - r.annual_revenue_opportunity>>

TopLimit == 20

get_pricing_opportunities(fails) ==
    /\ outcome = "idle"
    /\ LET q1 == <<Query("pricing_summary", {UnitSnapshotName, PairsName})>>
           q2 == q1 \o <<Query("top_opportunities", {UnitSnapshotName, PairsName})>>
       IN  CASE 1 \in fails ->
                   Raises("get_pricing_opportunities", <<>>, "engine", FailLast(q1), <<"error">>)
             [] 1 \notin fails /\ 2 \in fails ->
                   Raises("get_pricing_opportunities", <<>>, "engine", FailLast(q2), <<"error">>)
             [] OTHER ->
                   \E top \in Orderings(top_opportunity_rows, annual_desc) :
                       Returns("get_pricing_opportunities", <<>>,
                               [summary |-> pricing_summary,
                                top_opportunities |-> LimitOffset(top, TopLimit, 0)],
                               q2, <<>>)
    /\ UNCHANGED <<settings_vars, warehouse_vars, paging, loop>>

----------------------------------------------------------------------------
(* Property versus competition: overview, rent comparison, performance *)

RECURSIVE Gcd(_, _)
Gcd(a, b) == IF b = 0 THEN a ELSE Gcd(b, a % b)

Lcm(a, b) == (a \div Gcd(a, b)) * b

RECURSIVE LcmCol(_, _)
LcmCol(S, c) ==
    IF S = {} THEN 1
    ELSE LET x == CHOOSE y \in S : TRUE IN Lcm(x[c], LcmCol(S \ {x}, c))

RECURSIVE SumRatio(_, _, _, _)
SumRatio(S, n, d, l) ==
    IF S = {} THEN 0
    ELSE LET x == CHOOSE y \in S : TRUE
         IN x[n] * (l \div x[d]) + SumRatio(S \ {x}, n, d, l)

\* AVG(n / d) over rows with d > 0, as an exact fraction (den = 0: NULL)
AvgRatio(S, n, d) ==
    LET l == LcmCol(S, d)
        num == SumRatio(S, n, d, l)
        den == l * Cardinality(S)
        g == Gcd(num, den)
    IN  IF S = {} THEN [num |-> 0, den |-> 0]
        ELSE [num |-> num \div g, den |-> den \div g]

\* ROUND(f, 0) and ROUND(f * 100, 0) of a fraction; NULL stays NULL
RoundFrac(f) == IF f.den = 0 THEN NULL ELSE SqlRound(f.num, f.den)
RoundFrac2(f) == IF f.den = 0 THEN NULL ELSE SqlRound(f.num * 100, f.den)

\* MIN(col), MAX(col): NULL over no non-NULL value
SqlMin(S, c) ==
    LET V == {x[c] : x \in S} \ {NULL}
    IN  IF V = {} THEN NULL ELSE CHOOSE v \in V : \A w \in V : v <= w

SqlMax(S, c) ==
    LET V == {x[c] : x \in S} \ {NULL}
    IN  IF V = {} THEN NULL ELSE CHOOSE v \in V : \A w \in V : v >= w

\* Python round(n / d, ...) to the nearest integer, d > 0: halves round to even
PyRound(n, d) ==
    LET q == (2 * Abs(n)) \div (2 * d)
        twice == 2 * Abs(n) - 2 * d * q
        up == twice > d \/ (twice = d /\ q % 2 = 1)
        m == IF up THEN q + 1 ELSE q
    IN  IF n >= 0 THEN m ELSE 0 - m

\* int(x * pct / 100) for x >= 0
IntPct(x, pct) == (x * pct) \div 100

PropertyUnits(property_name) == {u \in unit_snapshot : u.property = property_name}

\* The rows of overview_query, ordered by unit_type.  A NULL average is NaN in
\* the frame.
overview_result(property_name) ==
    LET S == PropertyUnits(property_name)
        of(t) == {u \in S : u.unit_type = t}
        key(r) == <<StrRank(r.unit_type)>>
    IN  OrderBy({[property |-> property_name,
                  unit_type |-> t,
                  unit_count |-> Cardinality(of(t)),
                  avg_our_rent |-> RoundFrac(SqlAvg(of(t), "advertised_rent")),
                  avg_our_rent_per_sqft |-> RoundFrac(SqlAvg(of(t), "rent_per_sqft")),
                  vacant_units |-> Cardinality({u \in of(t) : IsVacant(u)}),
                  units_needing_pricing |-> Cardinality({u \in of(t) : u.needs_pricing}),
                  revenue_potential |-> SqlSum(of(t), "annual_revenue_potential")]
                    : t \in {u.unit_type : u \in S}},
                key)

\* Map unit type to bedroom text for the competition lookup
bed_filter(unit_type) ==
    CASE unit_type = "1BR" -> "1 Bed"
      [] unit_type = "2BR" -> "2 Beds"
      [] unit_type = "3BR" -> "3 Beds"
      [] unit_type = "4BR+" -> "4 Beds"
      [] unit_type = "STUDIO" -> "Studio"
      [] OTHER -> "1 Bed"

\* Map bedroom number to text format for the competition lookup
bed_text(bed) ==
    CASE bed = 0 -> "Studio"
      [] bed = 1 -> "1 Bed"
      [] bed = 2 -> "2 Beds"
      [] bed = 3 -> "3 Beds"
      [] bed >= 4 -> "4 Beds"
      [] OTHER -> "1 Bed"

\* Base_Price BETWEEN rent * lo/100 AND rent * hi/100
InBand(price, rent, lo, hi) == 100 * price >= lo * rent /\ 100 * price <= hi * rent

\* The comps market_query selects for an overview row
market_comps(row) ==
    {c \in Competition :
        /\ c.Bed = bed_filter(row.unit_type)
        /\ c.Base_Price > 0
        /\ c.Sq_Ft > 0
        /\ InBand(c.Base_Price, row.avg_our_rent, 70, 130)}

\* (ours - market) / market * 100 rounded to one decimal, in tenths
premium_pct(ours, market) ==
    IF ours = NULL THEN NULL ELSE PyRound((ours - market) * 1000, market)

FallbackPct == 0 - 48

\* The fallback of the overview loop.  int() of a NaN raises ValueError.
overview_fallback(row) ==
    IF row.avg_our_rent = NULL
    THEN [exc |-> "ValueError"]
    ELSE [exc |-> "",
          avg_market_rent |-> IntPct(row.avg_our_rent, 105),
          avg_market_rent_per_sqft |->
              IF row.avg_our_rent_per_sqft = NULL THEN NULL
              ELSE PyRound(row.avg_our_rent_per_sqft * 105, 100),
          avg_premium_discount_pct |-> FallbackPct]

\* The fields the overview loop adds to a row; raised: the engine raised on
\* market_query.  A NaN in the text of the query makes the engine raise.
\* The enrichment with the mock figures whatever the sub-query returns
overview_enrich_mock(row, raised) == overview_fallback(row)

overview_enrich(row, raised) ==
    LET comps == market_comps(row)
        avg_market_rent == RoundFrac(SqlAvg(comps, "Base_Price"))
    IN  IF raised \/ row.avg_our_rent = NULL THEN overview_fallback(row)
        ELSE IF Cardinality(comps) > 0
        THEN [exc |-> "",
              avg_market_rent |-> avg_market_rent,
              avg_market_rent_per_sqft |->
                  RoundFrac2(AvgRatio(comps, "Base_Price", "Sq_Ft")),
              avg_premium_discount_pct |->
                  IF avg_market_rent > 0
                  THEN premium_pct(row.avg_our_rent, avg_market_rent)
                  ELSE 0]
        ELSE overview_fallback(row)

\* The rows of rent_comparison_query, ordered by bed
rent_comparison_result(property_name) ==
    LET S == PropertyUnits(property_name)
        of(b) == {u \in S : u.bed = b}
        key(r) == <<r.bed>>
    IN  OrderBy({[bed |-> b,
                  unit_count |-> Cardinality(of(b)),
                  avg_our_rent |-> RoundFrac(SqlAvg(of(b), "advertised_rent")),
                  min_our_rent |-> SqlMin(of(b), "advertised_rent"),
                  max_our_rent |-> SqlMax(of(b), "advertised_rent"),
                  avg_our_rent_per_sqft |-> RoundFrac(SqlAvg(of(b), "rent_per_sqft"))]
                    : b \in {u.bed : u \in S}},
                key)

\* The comps comp_query selects for a bedroom row (no price band)
bedroom_comps(row) ==
    {c \in Competition :
        c.Bed = bed_text(row.bed) /\ c.Base_Price > 0 /\ c.Sq_Ft > 0}

FallbackCompCount == 25

\* The fallback that reports no comps instead of the fixed count
rent_comparison_fallback_uncounted(row) ==
    IF row.avg_our_rent = NULL
    THEN [exc |-> "ValueError"]
    ELSE [exc |-> "",
          avg_market_rent |-> IntPct(row.avg_our_rent, 105),
          min_market_rent |-> IntPct(row.min_our_rent, 95),
          max_market_rent |-> IntPct(row.max_our_rent, 115),
          avg_market_rent_per_sqft |->
              IF row.avg_our_rent_per_sqft = NULL THEN NULL
              ELSE PyRound(row.avg_our_rent_per_sqft * 105, 100),
          comp_count |-> 0,
          rent_gap_pct |-> FallbackPct]

\* The fallback of the rent comparison loop
rent_comparison_fallback(row) ==
    IF row.avg_our_rent = NULL
    THEN [exc |-> "ValueError"]
    ELSE [exc |-> "",
          avg_market_rent |-> IntPct(row.avg_our_rent, 105),
          min_market_rent |-> IntPct(row.min_our_rent, 95),
          max_market_rent |-> IntPct(row.max_our_rent, 115),
          avg_market_rent_per_sqft |->
              IF row.avg_our_rent_per_sqft = NULL THEN NULL
              ELSE PyRound(row.avg_our_rent_per_sqft * 105, 100),
          comp_count |-> FallbackCompCount,
          rent_gap_pct |-> FallbackPct]

\* The fields the rent comparison loop adds to a row
rent_comparison_enrich(row, raised) ==
    LET comps == bedroom_comps(row)
        avg_market_rent == RoundFrac(SqlAvg(comps, "Base_Price"))
    IN  IF raised THEN rent_comparison_fallback(row)
        ELSE IF Cardinality(comps) > 0
        THEN [exc |-> "",
              avg_market_rent |-> avg_market_rent,
              min_market_rent |-> SqlMin(comps, "Base_Price"),
              max_market_rent |-> SqlMax(comps, "Base_Price"),
              avg_market_rent_per_sqft |->
                  RoundFrac2(AvgRatio(comps, "Base_Price", "Sq_Ft")),
              comp_count |-> Cardinality(comps),
              rent_gap_pct |->
                  IF avg_market_rent > 0
                  THEN premium_pct(row.avg_our_rent, avg_market_rent)
                  ELSE 0]
        ELSE rent_comparison_fallback(row)

\* The derived metrics of the performance row: <<exception or "", row>>
performance_derive(row) ==
    LET rate == occupancy_rate(row.occupied_units, row.total_units)
        with_rate == [occupancy_rate |-> rate] @@ row
    IN  IF rate.den = 0 THEN <<"ZeroDivisionError", row>>
        ELSE IF row.total_revenue_potential = NULL \/ row.current_annual_revenue = NULL
        THEN <<"TypeError", with_rate>>
        ELSE <<"", [revenue_opportunity |->
                       row.total_revenue_potential - row.current_annual_revenue]
                   @@ with_rate>>

Raised(x) == x.exc # ""

\* A record without its exc field
Fields(r) == [f \in (DOMAIN r) \ {"exc"} |-> r[f]]

\* The first position of seq whose element raised, or Len(seq) + 1
FirstRaised(seq) ==
    IF \E i \in DOMAIN seq : Raised(seq[i])
    THEN CHOOSE i \in DOMAIN seq :
            Raised(seq[i]) /\ \A j \in 1..(i - 1) : ~Raised(seq[j])
    ELSE Len(seq) + 1

\* The number of queries the analysis of a property issues when none raises
vs_competition_queries(property_name) ==
    3 + Len(overview_result(property_name)) + Len(rent_comparison_result(property_name))

\* The outcome of the analysis when the engine raises on the queries in fails:
\* <<outcome, value, queries>>
vs_competition_run(property_name, fails) ==
    LET snap == {UnitSnapshotName}
        comp == {get_competition_table}
        rows1 == overview_result(property_name)
        n == Len(rows1)
        e1 == [i \in 1..n |-> overview_enrich(rows1[i], (1 + i) \in fails)]
        k1 == FirstRaised(e1)
        q1 == <<Query("overview", snap)>>
              \o [i \in 1..Min(k1, n) |->
                     QueryR("market", comp,
                            (1 + i) \in fails \/ rows1[i].avg_our_rent = NULL)]
        rows2 == rent_comparison_result(property_name)
        m == Len(rows2)
        e2 == [j \in 1..m |-> rent_comparison_enrich(rows2[j], (2 + n + j) \in fails)]
        k2 == FirstRaised(e2)
        q2 == q1 \o <<Query("rent_comparison", snap)>>
        q3 == q2 \o [j \in 1..Min(k2, m) |->
                         QueryR("comp", comp, (2 + n + j) \in fails)]
        q4 == q3 \o <<Query("performance", snap)>>
        d == performance_derive(metrics_row(PropertyUnits(property_name)))
    IN  CASE 1 \in fails ->
                <<"raised", [exc |-> "engine"], FailLast(<<Query("overview", snap)>>)>>
          [] 1 \notin fails /\ k1 <= n -> <<"raised", [exc |-> e1[k1].exc], q1>>
          [] 1 \notin fails /\ k1 > n /\ (2 + n) \in fails ->
                <<"raised", [exc |-> "engine"], FailLast(q2)>>
          [] 1 \notin fails /\ k1 > n /\ (2 + n) \notin fails /\ k2 <= m ->
                <<"raised", [exc |-> e2[k2].exc], q3>>
          [] 1 \notin fails /\ k1 > n /\ (2 + n) \notin fails /\ k2 > m
                /\ (3 + n + m) \in fails ->
                <<"raised", [exc |-> "engine"], FailLast(q4)>>
          [] 1 \notin fails /\ k1 > n /\ (2 + n) \notin fails /\ k2 > m
                /\ (3 + n + m) \notin fails /\ d[1] # "" ->
                <<"raised", [exc |-> d[1], performance_metrics |-> d[2]], q4>>
          [] OTHER ->
                <<"returned",
                  [property_name |-> property_name,
                   overview_by_unit_type |->
                       [i \in 1..n |-> Fields(e1[i]) @@ rows1[i]],
                   rent_comparison_by_bedrooms |->
                       [j \in 1..m |-> Fields(e2[j]) @@ rows2[j]],
                   performance_metrics |-> d[2]],
                  q4>>

\* One warning per enrichment query that raised, then the error if the call raises
vs_competition_log(r) ==
    [i \in 1..Cardinality({k \in DOMAIN r[3] :
                              r[3][k].kind \in {"market", "comp"} /\ r[3][k].raised})
        |-> "warning"]
    \o (IF r[1] = "raised" THEN <<"error">> ELSE <<>>)

get_property_vs_competition_analysis(property_name, fails) ==
    /\ outcome = "idle"
    /\ LET r == vs_competition_run(property_name, fails)
       IN  /\ op' = "get_property_vs_competition_analysis"
           /\ args' = [property_name |-> property_name]
           /\ outcome' = r[1]
           /\ result' = r[2]
           /\ queries' = r[3]
           /\ log' = vs_competition_log(r)
    /\ UNCHANGED <<settings_vars, warehouse_vars, paging, loop>>

----------------------------------------------------------------------------
(* Property unit analysis *)

\* The ON condition of the join of a unit with a listing: bedroom label, valid
\* price and size, price within 30% of the unit's rent.  A NULL rent joins
\* nothing.
unit_join(p, c) ==
    /\ c.Bed = bed_text(p.bed)
    /\ c.Base_Price > 0
    /\ c.Sq_Ft > 0
    /\ p.advertised_rent # NULL
    /\ InBand(c.Base_Price, p.advertised_rent, 70, 130)

IsAvailable(c) == c.Availability \in {"Available", "Available Now"}

\* The difference without the test avg_comp_rent > advertised_rent
potential_rent_increase_unguarded(avg, rent) ==
    IF avg.den # 0 /\ rent # NULL
    THEN SqlRound(avg.num - rent * avg.den, avg.den)
    ELSE 0

\* CASE WHEN avg_comp_rent IS NOT NULL AND avg_comp_rent > advertised_rent
\*      THEN ROUND(avg_comp_rent - advertised_rent, 0) ELSE 0 END
potential_rent_increase(avg, rent) ==
    IF avg.den # 0 /\ rent # NULL /\ avg.num > rent * avg.den
    THEN SqlRound(avg.num - rent * avg.den, avg.den)
    ELSE 0

\* CASE WHEN avg_comp_rent IS NOT NULL AND avg_comp_rent > advertised_rent
\*      THEN ROUND((avg_comp_rent - advertised_rent) * 12, 0) ELSE 0 END
annual_opportunity(avg, rent) ==
    IF avg.den # 0 /\ rent # NULL /\ avg.num > rent * avg.den
    THEN SqlRound((avg.num - rent * avg.den) * 12, avg.den)
    ELSE 0

\* The position without the 5% band around the comp average
unit_market_position_unbanded(avg, rent) ==
    IF avg.den # 0 /\ rent # NULL /\ rent * avg.den > avg.num THEN "ABOVE_MARKET"
    ELSE IF avg.den # 0 /\ rent # NULL /\ rent * avg.den < avg.num THEN "BELOW_MARKET"
    ELSE IF avg.den # 0 THEN "AT_MARKET"
    ELSE "NO_DATA"

\* CASE WHEN avg_comp_rent IS NOT NULL AND advertised_rent > avg_comp_rent * 1.05
\*        THEN 'ABOVE_MARKET'
\*      WHEN avg_comp_rent IS NOT NULL AND advertised_rent < avg_comp_rent * 0.95
\*        THEN 'BELOW_MARKET'
\*      WHEN avg_comp_rent IS NOT NULL THEN 'AT_MARKET' ELSE 'NO_DATA' END
unit_market_position(avg, rent) ==
    IF avg.den # 0 /\ rent # NULL /\ rent * avg.den * 100 > avg.num * 105
    THEN "ABOVE_MARKET"
    ELSE IF avg.den # 0 /\ rent # NULL /\ rent * avg.den * 100 < avg.num * 95
    THEN "BELOW_MARKET"
    ELSE IF avg.den # 0 THEN "AT_MARKET"
    ELSE "NO_DATA"

\* One row of units_query for unit p.  avg_comp_rent is an exact fraction
\* (den = 0: NULL); percentages are in tenths.
unit_analysis_row(p) ==
    LET comps == {c \in Competition : unit_join(p, c)}
        avg == SqlAvg(comps, "Base_Price")
        has == avg.den # 0
        rent == p.advertised_rent
    IN  [unit_id |-> p.unit_id,
         unit_type |-> p.unit_type,
         bed |-> p.bed,
         status |-> p.status,
         advertised_rent |-> rent,
         needs_pricing |-> p.needs_pricing,
         comparable_count |-> Cardinality(comps),
         avg_comp_rent |-> avg,
         min_comp_rent |-> SqlMin(comps, "Base_Price"),
         max_comp_rent |-> SqlMax(comps, "Base_Price"),
         available_comps |-> Cardinality({c \in comps : IsAvailable(c)}),
         rent_premium_pct |->
             IF has /\ avg.num > 0 /\ rent # NULL
             THEN SqlRound((rent * avg.den - avg.num) * 1000, avg.num)
             ELSE NULL,
         potential_rent_increase |-> potential_rent_increase(avg, rent),
         annual_opportunity |-> annual_opportunity(avg, rent),
         market_position |-> unit_market_position(avg, rent)]

\* ORDER BY CASE WHEN needs_pricing THEN 0 ELSE 1 END,
\*          COALESCE(avg_comp_rent, 0) - advertised_rent DESC (NULL last), unit_id.
\* The difference is scaled by 60, a multiple of every comp count up to 5, and
\* floored beyond that.
unit_analysis_order(r) ==
    << IF r.needs_pricing THEN 0 ELSE 1,
       IF r.advertised_rent = NULL THEN 1 ELSE 0,
       IF r.advertised_rent = NULL THEN 0
       ELSE IF r.avg_comp_rent.den = 0 THEN 60 * r.advertised_rent
       ELSE 0 - ((60 * (r.avg_comp_rent.num - r.advertised_rent * r.avg_comp_rent.den))
                    \div r.avg_comp_rent.den),
       r.unit_id >>

units_result(property_name) ==
    OrderBy({unit_analysis_row(p) : p \in PropertyUnits(property_name)},
            unit_analysis_order)

RECURSIVE SumSeq(_, _)
SumSeq(seq, c) ==
    IF seq = <<>> THEN 0 ELSE Head(seq)[c] + SumSeq(Tail(seq), c)

\* The summary with the average gap taken over the units that show an
\* opportunity instead of over all units
unit_analysis_summary_over_opportunities(units_data) ==
    LET total_units == Len(units_data)
        total_monthly_opp == SumSeq(units_data, "potential_rent_increase")
        with_opp == Cardinality({i \in DOMAIN units_data :
                                    units_data[i].potential_rent_increase > 0})
    IN  [total_units_analyzed |-> total_units,
         units_50plus_below_market |->
             Cardinality({i \in DOMAIN units_data :
                             units_data[i].potential_rent_increase > 50}),
         units_100plus_below_market |->
             Cardinality({i \in DOMAIN units_data :
                             units_data[i].potential_rent_increase > 100}),
         total_monthly_opportunity |-> total_monthly_opp,
         total_annual_opportunity |-> total_monthly_opp * 12,
         avg_rent_gap |->
             IF with_opp > 0 THEN [num |-> total_monthly_opp, den |-> with_opp]
             ELSE [num |-> 0, den |-> 1]]

\* Summary statistics calculated from the rows
unit_analysis_summary(units_data) ==
    LET total_units == Len(units_data)
        total_monthly_opp == SumSeq(units_data, "potential_rent_increase")
    IN  [total_units_analyzed |-> total_units,
         units_50plus_below_market |->
             Cardinality({i \in DOMAIN units_data :
                             units_data[i].potential_rent_increase > 50}),
         units_100plus_below_market |->
             Cardinality({i \in DOMAIN units_data :
                             units_data[i].potential_rent_increase > 100}),
         total_monthly_opportunity |-> total_monthly_opp,
         total_annual_opportunity |-> total_monthly_opp * 12,
         avg_rent_gap |->
             IF total_units > 0 THEN [num |-> total_monthly_opp, den |-> total_units]
             ELSE [num |-> 0, den |-> 1]]

get_property_unit_analysis(property_name, fails) ==
    /\ outcome = "idle"
    /\ LET q == <<Query("units", {UnitSnapshotName, get_competition_table})>>
           a == [property_name |-> property_name]
           units_data == units_result(property_name)
       IN  IF 1 \in fails
           THEN Raises("get_property_unit_analysis", a, "engine", FailLast(q), <<"error">>)
           ELSE Returns("get_property_unit_analysis", a,
                        [property_name |-> property_name,
                         units |-> units_data,
                         summary |-> unit_analysis_summary(units_data)],
                        q, <<>>)
    /\ UNCHANGED <<settings_vars, warehouse_vars, paging, loop>>

----------------------------------------------------------------------------
(* Property market trends *)

\* market_data: the unit type and bed a listing's label maps to
label_unit_type(label) ==
    CASE label = "Studio" -> "STUDIO"
      [] label = "1 Bed" -> "1BR"
      [] label = "2 Beds" -> "2BR"
      [] label = "3 Beds" -> "3BR"
      [] label = "4 Beds" -> "4BR+"
      [] OTHER -> "OTHER"

label_bed(label) ==
    CASE label = "Studio" -> 0
      [] label = "1 Bed" -> 1
      [] label = "2 Beds" -> 2
      [] label = "3 Beds" -> 3
      [] label = "4 Beds" -> 4
      [] OTHER -> 1

\* The premium with NULLIF(market, 0) as the divisor, without the COALESCE to 1
guarded_premium_uncoalesced(ours, market, scale) ==
    IF ours.den = 0 \/ market.den = 0 \/ market.num = 0 THEN NULL
    ELSE SqlRound((ours.num * market.den - scale * market.num * ours.den) * 1000,
                  scale * market.num * ours.den)

\* (ours - COALESCE(market, 0)) / NULLIF(COALESCE(market, 1), 0) * 100 rounded to
\* one decimal, in tenths; ours and market are fractions (den = 0: NULL), scale
\* is the number of units of `ours` in one unit of `market`
guarded_premium(ours, market, scale) ==
    IF ours.den = 0 THEN NULL
    ELSE IF market.den = 0 THEN SqlRound(ours.num * 1000, ours.den * scale)
    ELSE IF market.num = 0 THEN NULL
    ELSE SqlRound((ours.num * market.den - scale * market.num * ours.den) * 1000,
                  scale * market.num * ours.den)

\* The rows of positioning_query, ordered by bed and unit type
positioning_result(property_name) ==
    LET S == PropertyUnits(property_name)
        of(g) == {u \in S : u.unit_type = g[1] /\ u.bed = g[2]}
        market(g) == {c \in Competition :
                        /\ c.Base_Price > 0
                        /\ c.Sq_Ft > 0
                        /\ label_unit_type(c.Bed) = g[1]
                        /\ label_bed(c.Bed) = g[2]}
        key(r) == <<r.bed, StrRank(r.unit_type)>>
    IN  OrderBy({[unit_type |-> g[1],
                  bed |-> g[2],
                  our_unit_count |-> Cardinality(of(g)),
                  our_avg_rent |-> RoundFrac(SqlAvg(of(g), "advertised_rent")),
                  market_avg_rent |->
                      IF market(g) = {} THEN 0
                      ELSE RoundFrac(SqlAvg(market(g), "Base_Price")),
                  competitor_property_count |->
                      Cardinality({c.Property : c \in market(g)}),
                  total_competitor_units |-> Cardinality(market(g)),
                  rent_premium_pct |->
                      guarded_premium(SqlAvg(of(g), "advertised_rent"),
                                      SqlAvg(market(g), "Base_Price"), 1),
                  rent_per_sqft_premium_pct |->
                      guarded_premium(SqlAvg(of(g), "rent_per_sqft"),
                                      AvgRatio(market(g), "Base_Price", "Sq_Ft"),
                                      100)]
                    : g \in {<<u.unit_type, u.bed>> : u \in S}},
                key)

\* property_units of competitors_query: the distinct (bed, sqft, rent) of the
\* property with the number of units of each
competitor_groups(property_name) ==
    LET S == PropertyUnits(property_name)
    IN  {[bed |-> g[1], sqft |-> g[2], advertised_rent |-> g[3],
          our_unit_count |->
              Cardinality({u \in S : <<u.bed, u.sqft, u.advertised_rent>> = g})]
            : g \in {<<u.bed, u.sqft, u.advertised_rent>> : u \in S}}

\* The rows of the join: a listing paired with a group of our units
competitor_join(property_name) ==
    {j \in Competition \X competitor_groups(property_name) : unit_join(j[2], j[1])}

\* price within 15% of the rent and size within 15% of the size
truly_comparable(j) ==
    /\ InBand(j[1].Base_Price, j[2].advertised_rent, 85, 115)
    /\ InBand(j[1].Sq_Ft, j[2].sqft, 85, 115)

\* (1 - |a - b| / max(a, b)) * weight, in ten-thousandths, rounded down
closeness(a, b, weight) == (weight * 1000 * (Max(a, b) - Abs(a - b))) \div Max(a, b)

similarity(j) ==
    closeness(j[1].Base_Price, j[2].advertised_rent, 6)
    + closeness(j[1].Sq_Ft, j[2].sqft, 4)

RECURSIVE SumPairs(_)
SumPairs(P) ==
    IF P = {} THEN 0
    ELSE LET x == CHOOSE y \in P : TRUE IN x[2] + SumPairs(P \ {x})

\* SUM(F) over the rows of the join
SumJoin(J, F(_)) == SumPairs({<<x, F(x)>> : x \in J})

MinComparable == 3
CompetitorLimit == 10

our_count(j) == j[2].our_unit_count
their_price(j) == j[1].Base_Price

\* competitor_matches: one row per competing property with at least
\* MinComparable truly comparable join rows
competitor_matches(property_name) ==
    LET J == competitor_join(property_name)
        of(name) == {j \in J : j[1].Property = name}
        truly(name) == Cardinality({j \in of(name) : truly_comparable(j)})
        score(name) == SumJoin(of(name), similarity) \div Cardinality(of(name))
    IN  {[competitor_property |-> name,
          our_units_compared |-> SumJoin(of(name), our_count),
          their_comparable_units |-> truly(name),
          their_avg_rent |->
              SqlRound(SumJoin(of(name), their_price), Cardinality(of(name))),
          calculated_similarity_score |-> score(name),
          avg_similarity_score |->
              SqlRound(Max(1000, Min(10000, score(name))), 100),
          their_available_units |->
              Cardinality({j \in of(name) : IsAvailable(j[1])})]
            : name \in {n \in {j[1].Property : j \in J} : truly(n) >= MinComparable}}

\* ORDER BY truly_comparable_units DESC, calculated_similarity_score DESC
competitors_order(r) ==
    <<0 - r.their_comparable_units, 0 - r.calculated_similarity_score>>

Placeholder(name) ==
    [competitor_property |-> name,
     our_units_compared |-> 0,
     their_comparable_units |-> 0,
     their_avg_rent |-> 0,
     their_avg_rent_per_sqft |-> 0,
     avg_similarity_score |-> 0,
     their_available_units |-> 0]

\* CASE WHEN advertised_rent < 1000 THEN ... END: the position of the range
\* in the report (a NULL rent falls to the last range)
rent_range(rent) ==
    CASE rent # NULL /\ rent < 1000 -> 1
      [] rent # NULL /\ rent >= 1000 /\ rent < 1500 -> 2
      [] rent # NULL /\ rent >= 1500 /\ rent < 2000 -> 3
      [] rent # NULL /\ rent >= 2000 /\ rent < 2500 -> 4
      [] rent # NULL /\ rent >= 2500 /\ rent < 3000 -> 5
      [] OTHER -> 6

distribution_result(property_name) ==
    LET S == PropertyUnits(property_name)
        key(r) == <<r.rent_range, StrRank(r.unit_type)>>
    IN  OrderBy({[rent_range |-> g[1],
                  unit_type |-> g[2],
                  unit_count |->
                      Cardinality({u \in S :
                          <<rent_range(u.advertised_rent), u.unit_type>> = g})]
                    : g \in {<<rent_range(u.advertised_rent), u.unit_type>> : u \in S}},
                key)

\* top_competitors without the placeholder for an empty result
top_competitors_unguarded(raised, rows) ==
    IF raised THEN <<Placeholder("Data Unavailable")>> ELSE rows

\* top_competitors from the outcome of competitors_query: the rows in the
\* order the engine returned them, or a placeholder
top_competitors(raised, rows) ==
    IF raised THEN <<Placeholder("Data Unavailable")>>
    ELSE IF Len(rows) > 0 THEN rows
    ELSE <<Placeholder("No Direct Competitors Found")>>

\* The outcomes of the trends report when the engine raises on the queries in
\* fails: a set of <<outcome, value, queries, log>>, one per order the engine may
\* give to tied competitors
market_trends_runs(property_name, fails) ==
    LET snap == {UnitSnapshotName}
        comp == {get_competition_table}
        q1 == <<Query("positioning", snap \cup comp)>>
        q2 == q1 \o <<QueryR("competitors", snap \cup comp, 2 \in fails)>>
        q3 == q2 \o <<Query("distribution", snap)>>
        warn == IF 2 \in fails THEN <<"warning">> ELSE <<>>
    IN  CASE 1 \in fails ->
                {<<"raised", [exc |-> "engine"], FailLast(q1), <<"error">>>>}
          [] 1 \notin fails /\ 3 \in fails ->
                {<<"raised", [exc |-> "engine"], FailLast(q3), warn \o <<"error">>>>}
          [] OTHER ->
                {<<"returned",
                   [property_name |-> property_name,
                    market_positioning |-> positioning_result(property_name),
                    top_competitors |->
                        top_competitors(2 \in fails,
                                        LimitOffset(rows, CompetitorLimit, 0)),
                    rent_distribution |-> distribution_result(property_name)],
                   q3, warn>> :
                    rows \in Orderings(competitor_matches(property_name),
                                       competitors_order)}

get_property_market_trends(property_name, fails) ==
    /\ outcome = "idle"
    /\ \E r \in market_trends_runs(property_name, fails) :
           /\ op' = "get_property_market_trends"
           /\ args' = [property_name |-> property_name]
           /\ outcome' = r[1]
           /\ result' = r[2]
           /\ queries' = r[3]
           /\ log' = r[4]
    /\ UNCHANGED <<settings_vars, warehouse_vars, paging, loop>>

----------------------------------------------------------------------------
(* Diagnostics *)

SampleLimit == 5

\* ORDER BY COUNT(*) DESC
count_desc(r) == <<0 - r.unit_count>>

test_property_filter(property_name, fails) ==
    /\ outcome = "idle"
    /\ LET snap == {UnitSnapshotName}
           a == [property_name |-> property_name]
           q1 == <<Query("filtered", snap)>>
           q2 == q1 \o <<Query("all_properties", snap)>>
           of(name) == {u \in unit_snapshot : u.property = name}
           filtered == {[property |-> name,
                         unit_count |-> Cardinality(of(name)),
                         avg_rent |-> SqlAvg(of(name), "advertised_rent")]
                           : name \in {property_name} \cap {u.property : u \in unit_snapshot}}
           counts == {[property |-> name, unit_count |-> Cardinality(of(name))]
                         : name \in {u.property : u \in unit_snapshot}}
       IN  CASE 1 \in fails ->
                   Raises("test_property_filter", a, "engine", FailLast(q1), <<"error">>)
             [] 1 \notin fails /\ 2 \in fails ->
                   Raises("test_property_filter", a, "engine", FailLast(q2), <<"error">>)
             [] OTHER ->
                   \E sample \in Orderings(counts, count_desc) :
                       Returns("test_property_filter", a,
                               [filtered_result |-> filtered,
                                all_properties_sample |->
                                    LimitOffset(sample, SampleLimit, 0),
                                property_searched |-> property_name],
                               q2, <<>>)
    /\ UNCHANGED <<settings_vars, warehouse_vars, paging, loop>>

CompetitionColumns == {"Property", "Bed", "Sq_Ft", "Base_Price", "Availability"}

\* The schema query has a handler of its own that leaves the schema empty; the
\* sample is any SampleLimit rows of the table, as a set
test_competition_data(fails) ==
    /\ outcome = "idle"
    /\ LET comp == {get_competition_table}
           q == <<QueryR("schema", comp, 1 \in fails), Query("sample", comp)>>
       IN  IF 2 \in fails
           THEN Raises("test_competition_data", <<>>, "engine", FailLast(q), <<"error">>)
           ELSE \E sample \in {S \in SUBSET Competition :
                                  Cardinality(S) = Min(SampleLimit, Cardinality(Competition))} :
                    Returns("test_competition_data", <<>>,
                            [schema |-> IF 1 \in fails THEN {} ELSE CompetitionColumns,
                             sample_data |-> sample,
                             column_names |->
                                 IF sample # {} THEN CompetitionColumns ELSE {},
                             table_name |-> get_competition_table],
                            q, <<>>)
    /\ UNCHANGED <<settings_vars, warehouse_vars, paging, loop>>

-----------------------------------------------------------------------------
(* Specifications *)

FailSets(n) == SUBSET (1..n)

InitService ==
    /\ _rentroll_table = None
    /\ _competition_table = None
    /\ _project_id = gcp_project_id
    /\ op = "none"
    /\ args = <<>>
    /\ outcome = "idle"
    /\ result = <<>>
    /\ queries = <<>>
    /\ log = <<>>
    /\ paging = [state |-> "idle"]
    /\ loop = [ready |-> {}, suspended |-> <<>>]

\* One row per unit, each with the first profile of the small family
DemoUnits == UnitTable([i \in 1..MaxUnits |-> ((i - 1) % Cardinality(CoreProfiles)) + 1])

Init ==
    /\ InitService
    /\ \/ /\ unit_snapshot \in FixtureUnitTables
          /\ unit_competitor_pairs = {}
          /\ Competition = {}
       \/ /\ unit_snapshot = DemoUnits
          /\ unit_competitor_pairs \in PairTables
          /\ Competition = {}

InventoryCalls(Args) ==
    \/ \E a \in Args, fails \in FailSets(2) : get_units(a, fails)
    \/ \E id \in 1..(MaxUnits + 1), fails \in FailSets(1) : get_unit_by_id(id, fails)
    \/ \E limit \in VacantLimits, fails \in FailSets(1) : get_vacant_units(limit, fails)

MaxFailures == 2

\* The failure patterns of a call that issues up to n queries
FewFails(n) == {F \in SUBSET (1..n) : Cardinality(F) <= MaxFailures}

CompetitionCalls ==
    \/ \E name \in PropertyNames :
          \E fails \in FewFails(vs_competition_queries(name)) :
              get_property_vs_competition_analysis(name, fails)
    \/ \E name \in PropertyNames, fails \in FailSets(1) :
          get_property_unit_analysis(name, fails)
    \/ \E name \in PropertyNames, fails \in FailSets(3) :
          get_property_market_trends(name, fails)

Next ==
    \/ \E ts \in SettingsValues : set_table_settings(ts)
    \/ call_get_rentroll_table
    \/ call_get_competition_table
    \/ \E fails \in FailSets(1) : test_connection(fails)
    \/ InventoryCalls(DefaultPageArgs)
    \/ \E id \in 1..MaxUnits, fails \in FailSets(1) : get_unit_comparables(id, fails)
    \/ \E fails \in FailSets(1) : get_properties(fails)
    \/ \E fails \in FailSets(1) : get_unit_types_summary(fails)
    \/ \E fails \in FailSets(3) : get_portfolio_analytics(fails)
    \/ \E fails \in FailSets(2) : get_market_position_analytics(fails)
    \/ \E fails \in FailSets(2) : get_pricing_opportunities(fails)
    \/ CompetitionCalls
    \/ \E name \in PropertyNames, fails \in FailSets(2) : test_property_filter(name, fails)
    \/ \E fails \in FailSets(2) : test_competition_data(fails)
    \/ Complete

Spec == Init /\ [][Next]_vars

InitInventory ==
    /\ InitService
    /\ unit_snapshot \in UnitTables
    /\ unit_competitor_pairs = {}
    /\ Competition = {}

NextInventory == InventoryCalls(GetUnitsArgs) \/ Complete

SpecInventory == InitInventory /\ [][NextInventory]_vars

\* The vacancy list and the single-unit lookup over every urgency level
InitVacancy ==
    /\ InitService
    /\ unit_snapshot \in VacancyTables
    /\ unit_competitor_pairs = {}
    /\ Competition = {}

NextVacancy ==
    \/ \E id \in 1..MaxUnits, fails \in FailSets(1) : get_unit_by_id(id, fails)
    \/ \E limit \in VacantLimits, fails \in FailSets(1) : get_vacant_units(limit, fails)
    \/ Complete

SpecVacancy == InitVacancy /\ [][NextVacancy]_vars

\* A caller paging through get_units over a fixed inventory
PagingArgs == {a \in GetUnitsArgs : a.page = 1}

NextPaging ==
    \/ \E a \in PagingArgs : StartPaging(a)
    \/ \E fails \in FailSets(2) : NextPage(fails)
    \/ Complete

SpecPaging == InitInventory /\ [][NextPaging]_vars

\* The deep-dive reports over a varying inventory and competition table
InitCompetition ==
    /\ InitService
    /\ unit_snapshot \in FixtureUnitTables
    /\ unit_competitor_pairs = {}
    /\ Competition \in CompetitionTables

NextCompetition ==
    \/ CompetitionCalls
    \/ \E fails \in FailSets(3) : get_portfolio_analytics(fails)
    \/ Complete

SpecCompetition == InitCompetition /\ [][NextCompetition]_vars

\* The filters of get_units over a varying inventory
NextFilters ==
    \/ \E a \in FilterArgs, fails \in FailSets(2) : get_units(a, fails)
    \/ Complete

SpecFilters == InitInventory /\ [][NextFilters]_vars

\* The comp-pair reports over a varying inventory and pair table
InitMarket ==
    /\ InitService
    /\ unit_snapshot \in FixtureUnitTables
    /\ unit_competitor_pairs \in PairTables
    /\ Competition = {}

NextMarket ==
    \/ \E fails \in FailSets(2) : get_market_position_analytics(fails)
    \/ \E id \in 1..MaxUnits, fails \in FailSets(1) : get_unit_comparables(id, fails)
    \/ Complete

SpecMarket == InitMarket /\ [][NextMarket]_vars

\* A deep-dive report running on one thread while another thread calls
\* set_table_settings. The service holds no lock and the reports run their
\* sub-queries one after another (client.query(...).to_dataframe() blocks), so
\* the other thread may run between any two of them.
ThreadedOps == {"get_property_vs_competition_analysis", "get_property_market_trends"}

\* The table names a sub-query text interpolates from the competition setting
CompetitionKinds == {"market", "comp", "positioning", "competitors"}

\* The outcomes of report o with arguments a: a set of <<outcome, value, queries, log>>
invocation_runs(o, a, fails) ==
    IF o = "get_property_vs_competition_analysis"
    THEN LET r == vs_competition_run(a.property_name, fails)
         IN  {<<r[1], r[2], r[3], vs_competition_log(r)>>}
    ELSE market_trends_runs(a.property_name, fails)

\* The queries report o issues; they are the same for every outcome in the set
invocation_queries(o, a, fails) ==
    (CHOOSE r \in invocation_runs(o, a, fails) : TRUE)[3]

\* The positions of the queries issued so far on which the engine raised
RaisedSoFar == {i \in DOMAIN queries : queries[i].raised}

\* The k-th query of the running report, its text built from the settings of
\* the present state
built_query_reusing(k, fails) ==
    LET q == invocation_queries(op, args, fails)[k]
        earlier == {i \in DOMAIN queries : queries[i].kind \in CompetitionKinds}
    IN  IF q.kind \in CompetitionKinds /\ earlier # {}
        THEN [q EXCEPT !.tables = queries[CHOOSE i \in earlier : TRUE].tables]
        ELSE q

built_query(k, fails) == invocation_queries(op, args, fails)[k]

begin_report(o, property_name) ==
    /\ outcome = "idle"
    /\ op' = o
    /\ args' = [property_name |-> property_name]
    /\ outcome' = "running"
    /\ result' = <<>>
    /\ queries' = <<>>
    /\ log' = <<>>
    /\ UNCHANGED <<settings_vars, warehouse_vars, paging, loop>>

issue_query(raises) ==
    /\ outcome = "running"
    /\ LET k == Len(queries) + 1
           fails == RaisedSoFar \cup (IF raises THEN {k} ELSE {})
       IN  /\ k <= Len(invocation_queries(op, args, fails))
           /\ queries' = Append(queries, built_query(k, fails))
    /\ UNCHANGED <<settings_vars, warehouse_vars, op, args, outcome, result, log, paging, loop>>

end_report ==
    /\ outcome = "running"
    /\ Len(queries) = Len(invocation_queries(op, args, RaisedSoFar))
    /\ \E r \in invocation_runs(op, args, RaisedSoFar) :
           /\ outcome' = r[1]
           /\ result' = r[2]
           /\ log' = r[4]
    /\ UNCHANGED <<settings_vars, warehouse_vars, op, args, queries, paging, loop>>

\* set_table_settings called by another thread while the report runs
concurrent_set_table_settings(table_settings) ==
    /\ outcome = "running"
    /\ _rentroll_table' = table_settings.rentroll_table
    /\ _competition_table' = table_settings.competition_table
    /\ _project_id' = table_settings.project_id
    /\ UNCHANGED <<warehouse_vars, call_vars, paging, loop>>

InitThreads ==
    /\ InitService
    /\ unit_snapshot = DemoUnits
    /\ unit_competitor_pairs = {}
    /\ Competition \in CompetitionTables

NextThreads ==
    \/ \E o \in ThreadedOps, name \in PropertyNames : begin_report(o, name)
    \/ \E raises \in BOOLEAN : issue_query(raises)
    \/ end_report
    \/ \E ts \in {t \in SettingsValues : t.rentroll_table = None} :
          concurrent_set_table_settings(ts)
    \/ Complete

SpecThreads == InitThreads /\ [][NextThreads]_vars

\* The service driven by one event loop.  Its operations are coroutines
\* (async def); a coroutine, once started, runs until it awaits or returns, and
\* only then may the loop run another task.

\* A coroutine that awaited the engine after every query it sent
awaits_after_each_query(o) == Nat

\* The numbers of queries sent after which operation o awaits: the bodies of
\* the operations hold no await expression, every query is a blocking call
awaits(o) == {}

\* The tasks given to the loop: a deep-dive report, or a call of
\* set_table_settings
LoopTasks ==
    {[kind |-> "report", op |-> o, property_name |-> "Maple",
      table_settings |-> [rentroll_table |-> None, competition_table |-> None,
                          project_id |-> gcp_project_id]] : o \in ThreadedOps}
    \cup {[kind |-> "settings", op |-> "set_table_settings", property_name |-> "",
           table_settings |-> ts]
              : ts \in {t \in SettingsValues :
                           t.rentroll_table = None /\ t.competition_table # ""}}

\* The running coroutine is suspended at an await
AtAwait == outcome = "running" /\ Len(queries) \in awaits(op)

LoopHasControl == outcome = "idle" \/ AtAwait

\* A task is scheduled while no coroutine holds the loop
create_task(t) ==
    /\ outcome = "idle"
    /\ t \notin loop.ready
    /\ loop' = [loop EXCEPT !.ready = @ \cup {t}]
    /\ UNCHANGED <<settings_vars, warehouse_vars, call_vars, paging>>

\* The loop starts a scheduled task: set_table_settings runs to its end, a
\* report runs up to its first query; a coroutine waiting at an await is kept
\* aside while the report runs
run_task(t) ==
    /\ LoopHasControl
    /\ t \in loop.ready
    /\ loop' = [ready |-> loop.ready \ {t},
                suspended |->
                    IF outcome = "running" /\ t.kind = "report"
                    THEN <<[op |-> op, args |-> args, queries |-> queries]>>
                            \o loop.suspended
                    ELSE loop.suspended]
    /\ IF t.kind = "settings"
       THEN /\ _rentroll_table' = t.table_settings.rentroll_table
            /\ _competition_table' = t.table_settings.competition_table
            /\ _project_id' = t.table_settings.project_id
            /\ UNCHANGED call_vars
       ELSE /\ op' = t.op
            /\ args' = [property_name |-> t.property_name]
            /\ outcome' = "running"
            /\ result' = <<>>
            /\ queries' = <<>>
            /\ log' = <<>>
            /\ UNCHANGED settings_vars
    /\ UNCHANGED <<warehouse_vars, paging>>

\* The result of a finished coroutine is handed to its caller, and a coroutine
\* kept aside goes on
deliver ==
    /\ outcome \in {"returned", "raised"}
    /\ IF loop.suspended = <<>>
       THEN /\ op' = "none"
            /\ args' = <<>>
            /\ outcome' = "idle"
            /\ queries' = <<>>
            /\ UNCHANGED loop
       ELSE /\ op' = Head(loop.suspended).op
            /\ args' = Head(loop.suspended).args
            /\ outcome' = "running"
            /\ queries' = Head(loop.suspended).queries
            /\ loop' = [loop EXCEPT !.suspended = Tail(@)]
    /\ result' = <<>>
    /\ log' = <<>>
    /\ UNCHANGED <<settings_vars, warehouse_vars, paging>>

InitLoop ==
    /\ InitService
    /\ unit_snapshot = DemoUnits
    /\ unit_competitor_pairs = {}
    /\ Competition \in CompetitionTables

NextLoop ==
    \/ \E t \in LoopTasks : create_task(t)
    \/ \E t \in LoopTasks : run_task(t)
    \/ \E raises \in BOOLEAN : issue_query(raises)
    \/ end_report
    \/ deliver

SpecLoop == InitLoop /\ [][NextLoop]_vars

-----------------------------------------------------------------------------
(* Properties of the service *)

\* Some query of the call in progress made the engine raise
QueryFailed == \E i \in DOMAIN queries : queries[i].raised

ReraisingOps == {"get_units", "get_unit_by_id", "get_vacant_units",
                 "get_portfolio_analytics", "get_market_position_analytics",
                 "get_pricing_opportunities"}

SwallowingOps == {"get_unit_comparables", "get_properties", "get_unit_types_summary"}

FallbackRentroll == "proj0.rentroll.Update_7_8_native"
FallbackCompetition == "proj0.rentroll.Competition"

\* The value is one the accessors hand back: neither None nor the empty string
NonEmpty(v) == v # None /\ v # ""

\* C2 (as the code has it): the accessors return the rentroll_table and
\* competition_table of the most recent set_table_settings call for every
\* non-empty value passed, and the fallback names when the value passed was
\* empty or None or when set_table_settings was never called; no other
\* operation changes what they return.
C2_AccessorsFollowSettings ==
    /\ [](op = "set_table_settings" =>
            /\ get_rentroll_table =
                 IF NonEmpty(args.rentroll_table) THEN args.rentroll_table
                 ELSE FallbackRentroll
            /\ get_competition_table =
                 IF NonEmpty(args.competition_table) THEN args.competition_table
                 ELSE FallbackCompetition)
    /\ [][op' # "set_table_settings" =>
            /\ get_rentroll_table' = get_rentroll_table
            /\ get_competition_table' = get_competition_table]_vars
    /\ [](op = "get_rentroll_table" => result = get_rentroll_table)
    /\ [](op = "get_competition_table" => result = get_competition_table)
    /\ (get_rentroll_table = FallbackRentroll
          /\ get_competition_table = FallbackCompetition)

\* C2: after a call passing an empty rentroll name and a competition override,
\* and after other calls, the competition accessor returns the override
C2_Witness ==
    /\ op = "get_competition_table"
    /\ _rentroll_table = ""
    /\ get_rentroll_table = FallbackRentroll
    /\ result = "proj1.rentroll.Comp2"

\* C2 (as stated): right after set_table_settings the accessors return exactly
\* the values passed, whatever they are.
C2_ExactlyValuesPassed ==
    op = "set_table_settings" =>
        /\ get_rentroll_table = args.rentroll_table
        /\ get_competition_table = args.competition_table

\* C3: for every page, page_size and filter combination passed to get_units,
\* the number of units returned is at most page_size.
C3_AtMostPageSize ==
    (op = "get_units" /\ outcome = "returned") =>
        Len(result.units) <= args.page_size

\* C3: a full page was returned while more units matched than fit on it
C3_Witness ==
    /\ op = "get_units"
    /\ outcome = "returned"
    /\ args.page_size >= 1
    /\ Len(result.units) = args.page_size
    /\ result.total_count > args.page_size

\* The units of the snapshot that the filters f of a get_units call select
Matching(f) ==
    {u \in unit_snapshot :
        /\ u.has_complete_data
        /\ f.status_filter # None => u.status = f.status_filter
        /\ f.property_filter # None => u.property = f.property_filter
        /\ f.needs_pricing_only => u.needs_pricing}

\* The caller has read pages 1, 2, ... up to and including an empty one, and
\* what it concatenated is every matching unit exactly once
PagingComplete ==
    /\ Len(paging.units) = Cardinality(Matching(paging.filters))
    /\ Range(paging.units) = Matching(paging.filters)
    /\ \A i, j \in DOMAIN paging.units :
          i # j => paging.units[i].unit_id # paging.units[j].unit_id
    /\ paging.totals = {Len(paging.units)}

\* C4 (as the code has it): with a fixed filter set, unchanged data and a
\* page_size of at least 1, reading pages 1, 2, 3, ... until an empty page and
\* concatenating them yields every matching unit exactly once: the
\* concatenation has total_count units, no unit id twice, and total_count is
\* the same on every page.
C4_PagingCoversOnce ==
    /\ (paging.state = "done" /\ paging.filters.page_size >= 1) => PagingComplete
    /\ paging.state \in {"walking", "done"} => Cardinality(paging.totals) <= 1

\* C4: three matching units were read as a page of two, a page of one and an
\* empty page
C4_Witness ==
    /\ paging.state = "done"
    /\ paging.filters.page_size = 2
    /\ paging.filters.needs_pricing_only
    /\ paging.page = 3
    /\ Len(paging.units) = 3

\* C4 (as stated): the same for every page_size.
C4_PagingCoversOnceAnySize ==
    paging.state = "done" => PagingComplete

\* The sort key of the vacancy list, read off a returned row
VacantKey(row) ==
    << CASE row.pricing_urgency = "IMMEDIATE" -> 0
         [] row.pricing_urgency = "HIGH" -> 1
         [] row.pricing_urgency = "MEDIUM" -> 2
         [] OTHER -> 3,
       StrRank(row.property),
       row.unit_id >>

KeyLeq(k1, k2) ==
    \/ k1[1] < k2[1]
    \/ k1[1] = k2[1] /\ k1[2] < k2[2]
    \/ k1[1] = k2[1] /\ k1[2] = k2[2] /\ k1[3] <= k2[3]

\* C5: the list returned by get_vacant_units is sorted by (urgency rank,
\* property, unit id), with rank IMMEDIATE = 0, HIGH = 1, MEDIUM = 2, anything
\* else = 3: each unit's key is at most the key of the unit after it; and
\* every returned unit has needs_pricing and has_complete_data true.
C5_VacantSortedAndFiltered ==
    (op = "get_vacant_units" /\ outcome = "returned") =>
        /\ \A i \in 1..(Len(result) - 1) :
              KeyLeq(VacantKey(result[i]), VacantKey(result[i + 1]))
        /\ \A i \in DOMAIN result :
              \E u \in unit_snapshot :
                  /\ u.unit_id = result[i].unit_id
                  /\ u.needs_pricing
                  /\ u.has_complete_data

\* C5: two units of equal urgency rank came back with the property deciding
\* their order against the order of their ids, while the third unit of the
\* table, which needs no pricing or lacks data, was left out
C5_Witness ==
    /\ op = "get_vacant_units"
    /\ outcome = "returned"
    /\ Len(result) = 2
    /\ Cardinality(unit_snapshot) = 3
    /\ result[1].unit_id > result[2].unit_id
    /\ result[1].pricing_urgency = "IMMEDIATE"
    /\ result[2].pricing_urgency = "IMMEDIATE"
    /\ result[1].property = "Maple"
    /\ result[2].property = "Oak"

\* C10: get_unit_by_id returns the unit record when its query succeeds with a
\* row, returns None when the query succeeds with no row, and raises, never
\* returning None, when the query fails; which of the three happens is decided
\* by the outcome of the query alone.
C10_UnitByIdOutcomes ==
    op = "get_unit_by_id" =>
        LET rows == {u \in unit_snapshot : u.unit_id = args.unit_id}
        IN  /\ Len(queries) = 1
            /\ queries[1].raised <=> outcome = "raised"
            /\ ~queries[1].raised =>
                  /\ outcome = "returned"
                  /\ rows = {} <=> result = Nothing
                  /\ rows # {} => Len(result) = 1 /\ result[1] \in rows

\* C10: the lookup of an absent unit in a table that holds others returned None
C10_Witness ==
    /\ op = "get_unit_by_id"
    /\ outcome = "returned"
    /\ result = Nothing
    /\ unit_snapshot # {}
    /\ ~queries[1].raised

\* The rate stored with the metrics m is 0 for no units and occupied / total
\* * 100 otherwise
RateOf(m) ==
    /\ "occupancy_rate" \in DOMAIN m
    /\ m.occupancy_rate.den # 0
    /\ IF m.total_units = 0
       THEN m.occupancy_rate.num = 0
       ELSE m.occupancy_rate.num * m.total_units
               = m.occupied_units * 100 * m.occupancy_rate.den

\* C6: in get_portfolio_analytics and in the performance metrics of
\* get_property_vs_competition_analysis, occupancy_rate is 0 when total_units
\* is 0 and occupied_units / total_units * 100 otherwise, and computing it
\* never divides by zero.
C6_OccupancyRate ==
    /\ op \in {"get_portfolio_analytics", "get_property_vs_competition_analysis"} =>
          (outcome = "raised" => result.exc # "ZeroDivisionError")
    /\ (op = "get_portfolio_analytics" /\ "portfolio" \in DOMAIN result) =>
          RateOf(result.portfolio)
    /\ (op = "get_property_vs_competition_analysis"
          /\ "performance_metrics" \in DOMAIN result) =>
          RateOf(result.performance_metrics)

\* C6: the performance metrics of a property without units were computed, with
\* a rate of 0
C6_Witness ==
    /\ op = "get_property_vs_competition_analysis"
    /\ "performance_metrics" \in DOMAIN result
    /\ result.performance_metrics.total_units = 0
    /\ result.performance_metrics.occupancy_rate.num = 0
    /\ unit_snapshot # {}

\* C7: in get_property_unit_analysis, every returned unit whose average comp
\* rent is at most its advertised rent, or that has no comp average, has
\* potential_rent_increase and annual_opportunity exactly 0, and for every
\* returned unit both are non-negative and not null.
C7_OpportunityNonNegative ==
    (op = "get_property_unit_analysis" /\ outcome = "returned") =>
        \A i \in DOMAIN result.units :
            LET r == result.units[i]
                avg == r.avg_comp_rent
            IN  /\ r.potential_rent_increase # NULL /\ r.potential_rent_increase >= 0
                /\ r.annual_opportunity # NULL /\ r.annual_opportunity >= 0
                /\ (avg.den = 0 \/ avg.num <= r.advertised_rent * avg.den) =>
                      r.potential_rent_increase = 0 /\ r.annual_opportunity = 0

\* C7: one returned unit is priced above the average of its comps and shows no
\* opportunity, another is priced below and shows one
C7_Witness ==
    /\ op = "get_property_unit_analysis"
    /\ outcome = "returned"
    /\ \E i, j \in DOMAIN result.units :
          /\ result.units[i].comparable_count > 0
          /\ result.units[i].avg_comp_rent.num
                < result.units[i].advertised_rent * result.units[i].avg_comp_rent.den
          /\ result.units[i].potential_rent_increase = 0
          /\ result.units[j].potential_rent_increase > 0
          /\ result.units[j].annual_opportunity > 0

ZeroPlaceholder(name) ==
    [competitor_property |-> name, our_units_compared |-> 0,
     their_comparable_units |-> 0, their_avg_rent |-> 0,
     their_avg_rent_per_sqft |-> 0, avg_similarity_score |-> 0,
     their_available_units |-> 0]

\* C8: in get_property_market_trends top_competitors is never empty: when the
\* competitors query returns no row it is the one record named 'No Direct
\* Competitors Found', when the query raises it is the one record named 'Data
\* Unavailable', every numeric field of either being 0; the operation does
\* not raise because of the competitors query, and the rent-distribution query
\* is still executed after it.
C8_TopCompetitorsNeverEmpty ==
    op = "get_property_market_trends" =>
        /\ outcome = "returned" =>
              /\ Len(result.top_competitors) >= 1
              /\ queries[2].raised =>
                    result.top_competitors = <<ZeroPlaceholder("Data Unavailable")>>
              /\ (~queries[2].raised /\ competitor_matches(args.property_name) = {}) =>
                    result.top_competitors
                        = <<ZeroPlaceholder("No Direct Competitors Found")>>
        /\ (Len(queries) >= 2 /\ queries[2].kind = "competitors") =>
              Len(queries) = 3 /\ queries[3].kind = "distribution"
        /\ outcome = "raised" => queries[Len(queries)].kind # "competitors"

\* C8: the competitors query raised, the report came back with the 'Data
\* Unavailable' record and with the rent distribution of the property's units
C8_Witness ==
    /\ op = "get_property_market_trends"
    /\ outcome = "returned"
    /\ queries[2].raised
    /\ result.top_competitors[1].competitor_property = "Data Unavailable"
    /\ Len(result.rent_distribution) >= 1
    /\ competitor_matches(args.property_name) # {}

OverviewFields == {"avg_market_rent", "avg_market_rent_per_sqft",
                   "avg_premium_discount_pct"}

RentComparisonFields == {"avg_market_rent", "min_market_rent", "max_market_rent",
                         "avg_market_rent_per_sqft", "comp_count", "rent_gap_pct"}

\* C9: in get_property_vs_competition_analysis an enrichment sub-query that
\* finds no comps or raises never makes the operation raise nor stops the
\* enrichment of later rows: the operation never ends at an enrichment
\* sub-query, and every row of overview_by_unit_type and of
\* rent_comparison_by_bedrooms it returns carries its enrichment fields.
C9_EnrichmentNeverRaises ==
    op = "get_property_vs_competition_analysis" =>
        /\ outcome = "raised" =>
              queries[Len(queries)].kind \notin {"market", "comp"}
        /\ outcome = "returned" =>
              /\ \A i \in DOMAIN result.overview_by_unit_type :
                    OverviewFields \subseteq DOMAIN result.overview_by_unit_type[i]
              /\ \A j \in DOMAIN result.rent_comparison_by_bedrooms :
                    RentComparisonFields
                        \subseteq DOMAIN result.rent_comparison_by_bedrooms[j]

\* C11: test_connection issues exactly one query per call, without retry,
\* never raises, and returns True if and only if that query completed without
\* an exception.
C11_ProbeOnce ==
    op = "test_connection" =>
        /\ Len(queries) = 1
        /\ queries[1].kind = "probe"
        /\ outcome = "returned"
        /\ result = ~queries[1].raised

\* C11: the probe failed and the call returned False after that one query
C11_Witness ==
    /\ op = "test_connection"
    /\ outcome = "returned"
    /\ result = FALSE
    /\ Len(queries) = 1
    /\ queries[1].raised
    /\ log = <<"error">>

\* C12: the service is read-only: every public operation other than
\* set_table_settings leaves the rentroll table, the competition table and the
\* project id as they were, whether it returns, falls back or raises, and no
\* operation sends the warehouse anything but read queries, so the tables
\* stay as they were.
C12_ReadOnly ==
    /\ [][op' # "set_table_settings" =>
            /\ _rentroll_table' = _rentroll_table
            /\ _competition_table' = _competition_table
            /\ _project_id' = _project_id]_vars
    /\ [][/\ unit_snapshot' = unit_snapshot
          /\ unit_competitor_pairs' = unit_competitor_pairs
          /\ Competition' = Competition]_vars
    /\ [](\A i \in DOMAIN queries : queries[i].verb = "SELECT")

\* C12: with both overrides set, the trends report fell back on a failed
\* competitors query and the overrides are still in place
C12_Witness ==
    /\ op = "get_property_market_trends"
    /\ outcome = "returned"
    /\ queries[2].raised
    /\ _rentroll_table = "proj1.rentroll.New"
    /\ _competition_table = "proj1.rentroll.Comp2"
    /\ _project_id = "proj1"

\* C13: when set_table_settings interleaves with a running report that issues
\* several competition-table sub-queries, each sub-query names the competition
\* table that is current when its text is built; nothing fixes the name for the
\* whole invocation, so its sub-queries may name the old table and the new one
C13_NameCurrentWhenBuilt ==
    [][(outcome = "running" /\ Len(queries') = Len(queries) + 1) =>
          LET q == queries'[Len(queries')]
          IN  q.kind \in CompetitionKinds =>
                  q.tables \ {UnitSnapshotName} = {get_competition_table}]_vars

C13_Witness ==
    /\ op \in ThreadedOps
    /\ outcome = "returned"
    /\ \E i, j \in DOMAIN queries :
           /\ i < j
           /\ queries[i].kind \in CompetitionKinds
           /\ queries[j].kind \in CompetitionKinds
           /\ queries[i].tables \ {UnitSnapshotName} = {FallbackCompetition}
           /\ queries[j].tables \ {UnitSnapshotName} = {"proj1.rentroll.Comp2"}

\* C14: in the overview by unit type of get_property_vs_competition_analysis,
\* whenever the enrichment sub-query of a row returns a positive comp count,
\* the row's avg_market_rent is the sub-query's average price (rounded to a
\* whole number, not 1.05 times our rent) and its avg_premium_discount_pct is
\* (our avg - market avg) / market avg * 100 to the nearest tenth
\* (percentages are held in tenths)
C14_RealMarketFigures ==
    (op = "get_property_vs_competition_analysis" /\ outcome = "returned") =>
        \A i \in DOMAIN result.overview_by_unit_type :
            LET row == result.overview_by_unit_type[i]
                comps == market_comps(row)
                count == Cardinality(comps)
                sum == SumCol(comps, "Base_Price")
                market == row.avg_market_rent
            IN  (~queries[1 + i].raised /\ count > 0) =>
                    /\ 2 * Abs(market * count - sum) <= count
                    /\ 2 * Abs(row.avg_premium_discount_pct * market
                                - 1000 * (row.avg_our_rent - market)) <= market

C14_Witness ==
    /\ op = "get_property_vs_competition_analysis"
    /\ outcome = "returned"
    /\ \E i \in DOMAIN result.overview_by_unit_type :
           LET row == result.overview_by_unit_type[i]
           IN  /\ ~queries[1 + i].raised
               /\ market_comps(row) # {}
               /\ row.avg_market_rent # IntPct(row.avg_our_rent, 105)
               /\ row.avg_premium_discount_pct # FallbackPct
               /\ row.avg_premium_discount_pct < 0

\* C15: get_property_unit_analysis returns exactly one row per unit of the
\* property, units without any matching listing included (comparable_count 0,
\* market_position NO_DATA), and every row has exactly one market_position:
\* ABOVE_MARKET iff a comp average exists and the rent is above 1.05 times it,
\* BELOW_MARKET iff it exists and the rent is below 0.95 times it, AT_MARKET
\* iff it exists and neither holds, NO_DATA iff there is no comp average
C15_OneRowPerUnit ==
    (op = "get_property_unit_analysis" /\ outcome = "returned") =>
        LET units == result.units
            mine == {u \in unit_snapshot : u.property = args.property_name}
        IN  /\ Len(units) = Cardinality(mine)
            /\ {units[i].unit_id : i \in DOMAIN units} = {u.unit_id : u \in mine}
            /\ \A i \in DOMAIN units :
                   LET r == units[i]
                       exists == r.avg_comp_rent.den # 0
                       rent == r.advertised_rent
                       above == rent # NULL /\ 100 * rent * r.avg_comp_rent.den
                                                 > 105 * r.avg_comp_rent.num
                       below == rent # NULL /\ 100 * rent * r.avg_comp_rent.den
                                                 < 95 * r.avg_comp_rent.num
                   IN  /\ r.comparable_count =
                             Cardinality({c \in Competition :
                                 \E u \in mine : u.unit_id = r.unit_id /\ unit_join(u, c)})
                       /\ exists <=> r.comparable_count > 0
                       /\ r.market_position \in
                             {"ABOVE_MARKET", "BELOW_MARKET", "AT_MARKET", "NO_DATA"}
                       /\ r.market_position = "ABOVE_MARKET" <=> (exists /\ above)
                       /\ r.market_position = "BELOW_MARKET" <=> (exists /\ below)
                       /\ r.market_position = "AT_MARKET" <=>
                             (exists /\ ~above /\ ~below)
                       /\ r.market_position = "NO_DATA" <=> ~exists

C15_Witness ==
    /\ op = "get_property_unit_analysis"
    /\ outcome = "returned"
    /\ \E i, j, k \in DOMAIN result.units :
           /\ result.units[i].market_position = "NO_DATA"
           /\ result.units[i].comparable_count = 0
           /\ result.units[j].market_position = "BELOW_MARKET"
           /\ result.units[k].market_position = "AT_MARKET"

\* The comp pairs of a unit and the class the market summary gives it
PairsOf(u) == {r \in unit_competitor_pairs : r.unit_id = u.unit_id}

ClassOf(u) ==
    LET n == Cardinality(PairsOf(u))
        sum == SumCol(PairsOf(u), "comp_price")
        rent == u.advertised_rent
    IN  IF rent # NULL /\ rent * n > sum THEN "ABOVE_MARKET"
        ELSE IF rent # NULL /\ 100 * rent * n < 95 * sum THEN "BELOW_MARKET"
        ELSE "AT_MARKET"

\* The unit_count the returned market summary gives to class g
ClassCount(g) ==
    LET rows == {r \in result.market_summary : r.market_position = g}
    IN  IF rows = {} THEN 0 ELSE (CHOOSE r \in rows : TRUE).unit_count

SummaryCounts(U) ==
    /\ \A g \in {"ABOVE_MARKET", "BELOW_MARKET", "AT_MARKET"} :
           /\ Cardinality({r \in result.market_summary : r.market_position = g}) <= 1
           /\ ClassCount(g) = Cardinality({u \in U : ClassOf(u) = g})
    /\ \A r \in result.market_summary :
           /\ r.market_position \in {"ABOVE_MARKET", "BELOW_MARKET", "AT_MARKET"}
           /\ r.unit_count > 0
    /\ ClassCount("ABOVE_MARKET") + ClassCount("BELOW_MARKET") + ClassCount("AT_MARKET")
           = Cardinality(U)

\* C16 as stated: in the market summary of get_market_position_analytics every
\* unit with at least one comp pair is counted in exactly one class
\* (ABOVE_MARKET iff rent > avg comp price, BELOW_MARKET iff rent < 0.95 * avg
\* comp price, AT_MARKET otherwise), a unit with no comp pair is counted in no
\* class, and the class counts sum to the number of units with a comp average
C16_EveryPairedUnitCounted ==
    (op = "get_market_position_analytics" /\ outcome = "returned") =>
        SummaryCounts({u \in unit_snapshot : PairsOf(u) # {}})

\* C16 amended: every unit with at least one comp pair and an advertised rent
\* is counted in exactly one class (ABOVE_MARKET iff rent > avg comp price,
\* BELOW_MARKET iff rent < 0.95 * avg comp price, AT_MARKET otherwise); a unit
\* with no comp pair or with no advertised rent is counted in no class, so the
\* class counts sum to the number of units with a comp average and a rent
C16_EveryPricedPairedUnitCounted ==
    (op = "get_market_position_analytics" /\ outcome = "returned") =>
        SummaryCounts({u \in unit_snapshot :
                          PairsOf(u) # {} /\ u.advertised_rent # NULL})

C16_Witness ==
    /\ op = "get_market_position_analytics"
    /\ outcome = "returned"
    /\ \E u \in unit_snapshot : PairsOf(u) # {} /\ u.advertised_rent = NULL
    /\ \E u \in unit_snapshot : PairsOf(u) = {}
    /\ ClassCount("ABOVE_MARKET") = 1
    /\ ClassCount("BELOW_MARKET") + ClassCount("AT_MARKET") = 0

\* The units that satisfy has_complete_data and every filter of f that is
\* neither absent nor empty
MatchingGiven(f) ==
    {u \in unit_snapshot :
        /\ u.has_complete_data
        /\ f.status_filter \notin {None, ""} => u.status = f.status_filter
        /\ f.property_filter \notin {None, ""} => u.property = f.property_filter
        /\ f.needs_pricing_only => u.needs_pricing}

\* The first page holds units of M only, all of them when they fit, and
\* total_count is the size of M
SelectsExactly(M) ==
    /\ \A i \in DOMAIN result.units : result.units[i] \in M
    /\ Len(result.units) = Min(args.page_size, Cardinality(M))
    /\ result.total_count = Cardinality(M)

C18_PageOrderedByTier ==
    (op = "get_units" /\ outcome = "returned") =>
        \A i, j \in DOMAIN result.units :
            i < j =>
                LET a == result.units[i]
                    b == result.units[j]
                IN  /\ b.needs_pricing => a.needs_pricing
                    /\ a.needs_pricing = b.needs_pricing =>
                           KeyLeq(VacantKey(a), VacantKey(b))

\* The listings of a competing property that are truly comparable to some unit
\* of ours: same bedroom label, price and size each within 15% of the unit's
ComparableListings(competitor, property_name) ==
    {c \in Competition :
        /\ c.Property = competitor
        /\ \E u \in unit_snapshot :
               /\ u.property = property_name
               /\ c.Bed = bed_text(u.bed)
               /\ u.advertised_rent # NULL
               /\ u.sqft # NULL
               /\ InBand(c.Base_Price, u.advertised_rent, 85, 115)
               /\ InBand(c.Sq_Ft, u.sqft, 85, 115)}

RealCompetitors ==
    /\ op = "get_property_market_trends"
    /\ outcome = "returned"
    /\ result.top_competitors[1].competitor_property
           \notin {"No Direct Competitors Found", "Data Unavailable"}

\* C19: when top_competitors of get_property_market_trends is not a
\* placeholder it has between 1 and 10 records sorted by their_comparable_units
\* non-increasing; every record's competing property has at least 3 listings of
\* its own that are truly comparable to one of our units, and every
\* avg_similarity_score lies in [0.1, 1.0] (scores are held in hundredths)
C19_CompetitorsTrulyComparable ==
    RealCompetitors =>
        LET rows == result.top_competitors
        IN  /\ Len(rows) \in 1..10
            /\ \A i \in 1..(Len(rows) - 1) :
                   rows[i].their_comparable_units >= rows[i + 1].their_comparable_units
            /\ \A i \in DOMAIN rows :
                   /\ Cardinality(ComparableListings(rows[i].competitor_property,
                                                     args.property_name)) >= 3
                   /\ rows[i].avg_similarity_score \in 10..100

\* The units the vacancy listing selects
PricingNeeded == {u \in unit_snapshot : u.needs_pricing /\ u.has_complete_data}

\* The returned rows are the first k rows of the uncapped listing: k distinct
\* selected units in the order of the listing, every selected unit left out
\* coming after all of them
FirstRows(k) ==
    /\ Len(result) = k
    /\ \A i \in DOMAIN result :
           \E u \in PricingNeeded : Project(u, VacantColumns) = result[i]
    /\ \A i \in 1..(Len(result) - 1) :
           /\ result[i] # result[i + 1]
           /\ KeyLeq(VacantKey(result[i]), VacantKey(result[i + 1]))
    /\ \A u \in PricingNeeded :
           \/ \E i \in DOMAIN result : result[i] = Project(u, VacantColumns)
           \/ \A i \in DOMAIN result : KeyLeq(VacantKey(result[i]), VacantKey(u))

\* C20 as stated: for any non-negative row cap n passed to get_vacant_units the
\* result has at most n rows and is the first rows of the uncapped listing in
\* the same order; when no cap is passed every unit needing pricing with
\* complete data is returned
C20_CapBoundsRows ==
    (op = "get_vacant_units" /\ outcome = "returned") =>
        IF args.limit = Nothing
        THEN FirstRows(Cardinality(PricingNeeded))
        ELSE args.limit[1] >= 0 =>
                FirstRows(Min(args.limit[1], Cardinality(PricingNeeded)))

\* C20 amended: for any positive row cap n the result has at most n rows and
\* is the first rows of the uncapped listing in the same order; when no cap is
\* passed, or the cap is 0, every unit needing pricing with complete data is
\* returned
C20_PositiveCapBoundsRows ==
    (op = "get_vacant_units" /\ outcome = "returned") =>
        IF args.limit = Nothing \/ args.limit = Some(0)
        THEN FirstRows(Cardinality(PricingNeeded))
        ELSE args.limit[1] > 0 /\
                FirstRows(Min(args.limit[1], Cardinality(PricingNeeded)))

C20_Witness ==
    /\ op = "get_vacant_units"
    /\ outcome = "returned"
    /\ args.limit = Some(2)
    /\ Len(result) = 2
    /\ Cardinality(PricingNeeded) = 3
    /\ result[1].pricing_urgency = "IMMEDIATE"
    /\ result[2].pricing_urgency = "HIGH"

PositioningReturned == op = "get_property_market_trends" /\ outcome = "returned"

\* The units of the property and the listings behind a row of the positioning
GroupUnits(r) ==
    {u \in unit_snapshot : /\ u.property = args.property_name
                           /\ u.unit_type = r.unit_type
                           /\ u.bed = r.bed}

GroupListings(r) ==
    {c \in Competition : /\ c.Base_Price > 0
                         /\ c.Sq_Ft > 0
                         /\ label_unit_type(c.Bed) = r.unit_type
                         /\ label_bed(c.Bed) = r.bed}

\* C21 as stated: in the market positioning of get_property_market_trends,
\* rent_premium_pct and rent_per_sqft_premium_pct are defined numbers for every
\* (unit type, bedroom) group; the computation never yields null
C21_PremiumsDefined ==
    PositioningReturned =>
        \A i \in DOMAIN result.market_positioning :
            /\ result.market_positioning[i].rent_premium_pct # NULL
            /\ result.market_positioning[i].rent_per_sqft_premium_pct # NULL

\* C21 amended: rent_premium_pct (rent_per_sqft_premium_pct) is a defined
\* number exactly for the groups in which some unit has an advertised rent (a
\* rent per sqft), and null for the others; when the competition table has no
\* listing for the group the market value counts as 0 and the divisor is
\* replaced by 1, so rent_premium_pct is 100 times our average rent; otherwise
\* it is (our avg - market avg) / market avg * 100 to the nearest tenth
\* (percentages are held in tenths)
C21_PremiumsDefinedWhenPriced ==
    PositioningReturned =>
        \A i \in DOMAIN result.market_positioning :
            LET r == result.market_positioning[i]
                n == CountCol(GroupUnits(r), "advertised_rent")
                s == SumCol(GroupUnits(r), "advertised_rent")
                N == Cardinality(GroupListings(r))
                S == SumCol(GroupListings(r), "Base_Price")
                pct == r.rent_premium_pct
            IN  /\ pct = NULL <=> n = 0
                /\ r.rent_per_sqft_premium_pct = NULL <=>
                       CountCol(GroupUnits(r), "rent_per_sqft") = 0
                /\ (n > 0 /\ N = 0) => 2 * Abs(pct * n - 1000 * s) <= n
                /\ (n > 0 /\ N > 0) =>
                       2 * Abs(pct * S * n - 1000 * (s * N - S * n)) <= S * n

C21_Witness ==
    /\ PositioningReturned
    /\ \E i, j, k \in DOMAIN result.market_positioning :
           /\ result.market_positioning[i].rent_premium_pct = NULL
           /\ GroupListings(result.market_positioning[j]) = {}
           /\ result.market_positioning[j].rent_premium_pct >= 100000
           /\ GroupListings(result.market_positioning[k]) # {}
           /\ result.market_positioning[k].rent_premium_pct \notin {NULL, 0}

VsCompetitionReturned ==
    op = "get_property_vs_competition_analysis" /\ outcome = "returned"

\* our value times 1.05 to two decimals (values are held in hundredths)
MockPerSqft(ours, got) ==
    IF ours = NULL THEN got = NULL ELSE 2 * Abs(100 * got - 105 * ours) <= 100

\* The synthetic fields of an overview row and of a bedroom row
MockOverview(row) ==
    /\ row.avg_market_rent = (row.avg_our_rent * 105) \div 100
    /\ MockPerSqft(row.avg_our_rent_per_sqft, row.avg_market_rent_per_sqft)
    /\ row.avg_premium_discount_pct = 0 - 48

MockBedroom(row) ==
    /\ row.avg_market_rent = (row.avg_our_rent * 105) \div 100
    /\ MockPerSqft(row.avg_our_rent_per_sqft, row.avg_market_rent_per_sqft)
    /\ row.rent_gap_pct = 0 - 48
    /\ row.min_market_rent = (row.min_our_rent * 95) \div 100
    /\ row.max_market_rent = (row.max_our_rent * 115) \div 100
    /\ row.comp_count = 25

\* The positions of the sub-queries that raised, without those whose row has
\* no comps in the competition table
RaisedWithComps ==
    LET rows1 == overview_result(args.property_name)
        rows2 == rent_comparison_result(args.property_name)
        n == Len(rows1)
    IN  {k \in RaisedSoFar :
            ~ \/ queries[k].kind = "market" /\ market_comps(rows1[k - 1]) = {}
              \/ queries[k].kind = "comp" /\ bedroom_comps(rows2[k - 2 - n]) = {}}

\* C22: in both enrichment loops of get_property_vs_competition_analysis a
\* sub-query that returns no comps and a sub-query that raises give the row the
\* same synthetic fields (market rent = our avg rent * 1.05 truncated, market
\* rent per sqft = ours * 1.05, premium or gap = -4.8 and, for a bedroom row,
\* min = our min * 0.95, max = our max * 1.15, comp_count = 25), and what
\* the call returns or raises is what it does when the sub-queries that find
\* no comps do not raise
C22_FallbackIndistinguishable ==
    /\ op = "get_property_vs_competition_analysis" =>
           LET r == vs_competition_run(args.property_name, RaisedWithComps)
           IN  outcome = r[1] /\ result = r[2]
    /\ VsCompetitionReturned =>
        LET n == Len(result.overview_by_unit_type)
        IN  /\ \A i \in DOMAIN result.overview_by_unit_type :
                   LET row == result.overview_by_unit_type[i]
                   IN  (queries[1 + i].raised \/ market_comps(row) = {}) =>
                           MockOverview(row)
            /\ \A j \in DOMAIN result.rent_comparison_by_bedrooms :
                   LET row == result.rent_comparison_by_bedrooms[j]
                   IN  (queries[2 + n + j].raised \/ bedroom_comps(row) = {}) =>
                           MockBedroom(row)

C22_Witness ==
    /\ VsCompetitionReturned
    /\ RaisedSoFar # RaisedWithComps
    /\ \E j, k \in DOMAIN result.rent_comparison_by_bedrooms :
           LET n == Len(result.overview_by_unit_type)
               a == result.rent_comparison_by_bedrooms[j]
               b == result.rent_comparison_by_bedrooms[k]
           IN  /\ queries[2 + n + j].raised
               /\ bedroom_comps(a) # {}
               /\ ~queries[2 + n + k].raised
               /\ bedroom_comps(b) = {}
               /\ a.comp_count = 25
               /\ b.comp_count = 25

UnitAnalysisReturned == op = "get_property_unit_analysis" /\ outcome = "returned"

\* The sum of field c over the returned unit rows
RowsTotal(c) == SumPairs({<<i, result.units[i][c]>> : i \in DOMAIN result.units})

\* C23: the summary of get_property_unit_analysis is a function of the returned
\* rows only: total_units_analyzed is the row count, total_monthly_opportunity
\* is the sum of the rows' potential_rent_increase, units_100plus_below_market
\* <= units_50plus_below_market <= total_units_analyzed, and avg_rent_gap is
\* total_monthly_opportunity / total_units_analyzed, or 0 without rows
C23_SummaryFromRows ==
    UnitAnalysisReturned =>
        LET s == result.summary
            n == Len(result.units)
        IN  /\ s.total_units_analyzed = n
            /\ s.total_monthly_opportunity = RowsTotal("potential_rent_increase")
            /\ s.units_50plus_below_market =
                   Cardinality({i \in DOMAIN result.units :
                                   result.units[i].potential_rent_increase > 50})
            /\ s.units_100plus_below_market =
                   Cardinality({i \in DOMAIN result.units :
                                   result.units[i].potential_rent_increase > 100})
            /\ s.units_100plus_below_market <= s.units_50plus_below_market
            /\ s.units_50plus_below_market <= n
            /\ s.avg_rent_gap.den # 0
            /\ IF n = 0 THEN s.avg_rent_gap.num = 0
               ELSE s.avg_rent_gap.num * n
                       = s.total_monthly_opportunity * s.avg_rent_gap.den

C23_Witness ==
    /\ UnitAnalysisReturned
    /\ Len(result.units) = 3
    /\ result.summary.units_100plus_below_market = 1
    /\ result.summary.units_50plus_below_market = 2
    /\ result.summary.total_monthly_opportunity > 0
    /\ \E i \in DOMAIN result.units : result.units[i].potential_rent_increase = 0

\* C24: in get_property_unit_analysis the summary's total_annual_opportunity
\* equals the sum of annual_opportunity over the returned unit rows
C24_AnnualTotalIsRowSum ==
    UnitAnalysisReturned =>
        result.summary.total_annual_opportunity = RowsTotal("annual_opportunity")

\* C25: no operation yields control between its first query and its return:
\* on one event loop, from the first query of a running operation to its
\* return every step is a step of that operation (the queries of another
\* scheduled operation never come in between), and the settings do not
\* change, so a scheduled set_table_settings cannot take effect between two
\* sub-queries of one invocation
C25_NoYieldBetweenQueries ==
    [][(outcome = "running" /\ queries # <<>>) =>
          /\ op' = op
          /\ args' = args
          /\ settings_vars' = settings_vars
          /\ loop' = loop
          /\ \/ queries' = queries
             \/ /\ Len(queries') = Len(queries) + 1
                /\ SubSeq(queries', 1, Len(queries)) = queries]_vars

C25_Witness ==
    /\ op = "get_property_vs_competition_analysis"
    /\ outcome = "running"
    /\ Len(queries) >= 3
    /\ \E t \in loop.ready :
           /\ t.kind = "settings"
           /\ t.table_settings.competition_table # _competition_table
    /\ \E t \in loop.ready : t.kind = "report"

\* The aggregate query of the call was the last one sent and did not raise
AggregateAnswered ==
    /\ outcome \in {"returned", "raised"}
    /\ queries # <<>>
    /\ ~queries[Len(queries)].raised
    /\ \/ /\ op = "get_property_vs_competition_analysis"
          /\ queries[Len(queries)].kind = "performance"
       \/ /\ op = "get_portfolio_analytics"
          /\ queries[Len(queries)].kind = "property_performance"

\* C26: for every property name, one matching no units included,
\* get_property_vs_competition_analysis returns performance_metrics holding
\* occupancy_rate and revenue_opportunity = total_revenue_potential -
\* current_annual_revenue, and the derived metrics never raise once the
\* queries succeeded; the same for get_portfolio_analytics over an empty
\* inventory
C26_DerivedMetricsNeverRaise ==
    AggregateAnswered =>
        /\ outcome = "returned"
        /\ op = "get_property_vs_competition_analysis" =>
              /\ "occupancy_rate" \in DOMAIN result.performance_metrics
              /\ "revenue_opportunity" \in DOMAIN result.performance_metrics
              /\ result.performance_metrics.revenue_opportunity
                    = result.performance_metrics.total_revenue_potential
                        - result.performance_metrics.current_annual_revenue
        /\ op = "get_portfolio_analytics" =>
              /\ "occupancy_rate" \in DOMAIN result.portfolio
              /\ "revenue_optimization_potential" \in DOMAIN result.portfolio
              /\ result.portfolio.revenue_optimization_potential
                    = result.portfolio.total_revenue_potential
                        - result.portfolio.current_annual_revenue

\* The names of the inventory and the pair table as built at construction
ConstructionTimeNames ==
    {gcp_project_id \o "." \o mart_dataset \o "." \o t
        : t \in {"unit_snapshot", "unit_competitor_pairs"}}

\* The queries that read the inventory or the pair table only
InventoryKinds ==
    {"count", "data", "unit", "vacant", "comparables", "properties",
     "unit_types", "portfolio", "urgency", "property_performance",
     "market_summary", "unit_type_comparison", "pricing_summary",
     "top_opportunities", "overview", "rent_comparison", "performance",
     "distribution", "filtered", "all_properties"}

\* The table the competition queries read, from the competition setting alone
CompetitionTarget ==
    IF _competition_table \in {None, ""}
    THEN gcp_project_id \o ".rentroll.Competition"
    ELSE _competition_table

\* C27: of the three settings only the competition table changes what is
\* queried: whatever rentroll table and project id the settings hold, every
\* query names the inventory and the pair table by the names built from the
\* construction-time project id and the mart dataset, and any other table it
\* names is the one the competition setting gives; an update of the rentroll
\* table and the project id alone leaves the queries of every call as they
\* were
C27_OnlyCompetitionSettingQueried ==
    \A i \in DOMAIN queries :
        /\ queries[i].tables \subseteq ConstructionTimeNames \cup {CompetitionTarget}
        /\ queries[i].kind \in InventoryKinds =>
              /\ queries[i].tables # {}
              /\ queries[i].tables \subseteq ConstructionTimeNames
        /\ queries[i].kind \notin InventoryKinds \cup {"probe"} =>
              CompetitionTarget \in queries[i].tables

C27_Witness ==
    /\ _rentroll_table = "proj1.rentroll.New"
    /\ _project_id = "proj1"
    /\ _competition_table = None
    /\ op = "get_units"
    /\ outcome = "returned"
    /\ Len(queries) = 2
    /\ \A i \in DOMAIN queries :
           queries[i].tables = {"proj0.mart.unit_snapshot"}

====
